---- MODULE Spec2Model ----
(***************************************************************************)
(* Tonic Ear: the session generator (docs/assets/local-session.js) and,   *)
(* from web/assets/app.js, the sample mapper, the voice pool, the judging  *)
(* of answers and the quiz.                                                *)
(*                                                                         *)
(* Specifications: Spec and SpecCalls (generateSession, once and again),   *)
(* SpecSample (sampleWithoutReplacement), SpecMap (mapTargetHzToSample,    *)
(* resolveSampleIdForNote, buildNotePayloads, the range clamp),           *)
(* SpecVoices (playNotes, keyboard taps), SpecJudge (isCorrect), SpecQuiz  *)
(* (the quiz handlers, startSession as one step), SpecTuning               *)
(* (calculateDoFrequency), SpecLoad (ensureSampleBuffer and its promises), *)
(* SpecSwitch (the switch of instrument of the client that has             *)
(* instruments), SpecNav (the quiz with startSession split at its          *)
(* awaits), SpecVoicesFair (SpecVoices with playNotes running to its end), *)
(* SpecHeld (the held tones of the client that holds tones), SpecOverlap   *)
(* (changes of instrument that overlap), SpecUnlock (the unlock of         *)
(* audio), SpecPick (the note pickers) and SpecOctave (the full-screen     *)
(* keyboard).                                                              *)
(*                                                                         *)
(* Encodings used throughout:                                              *)
(*   - a JavaScript Map or plain object is a TLA+ function on its keys;    *)
(*   - an optional property is a record field that is present or absent    *)
(*     ("enharmonicDegree" \in DOMAIN note);                               *)
(*   - frequencies are integers in units of 1e-4 Hz (roundTo(.., 4));      *)
(*   - visual-hint heights are integers in units of 1e-2 (roundTo(.., 2)); *)
(*   - Math.random() is a pseudo random generator whose state is the       *)
(*     variable rng; the seed is chosen in Init;                           *)
(*   - a function that may throw returns a record that says so (thrown);   *)
(*   - display texts (module titles, option labels, promptText) are left   *)
(*     out; generateSession is called without a mapTargetFrequency         *)
(*     callback.                                                           *)
(***************************************************************************)
EXTENDS Integers, Sequences, FiniteSets, TLC

VARIABLES
    options,        \* argument of generateSession
    pc,             \* position inside generateSession
    module,         \* local: MODULE_MAP.get(moduleId)
    effectiveLevel, \* local: resolveNotePoolLevel(module)
    notesPool,      \* local: getNotePool(effectiveLevel)
    doFrequency,    \* local: calculateDoFrequency(gender, key)
    questions,      \* local: the questions built so far
    session,        \* value returned by generateSession
    error,          \* error thrown by generateSession
    rng,            \* state of the random source behind Math.random()
    catalog,        \* the module-level catalogs that generateSession reads
    calls,          \* number of generateSession calls made so far
    audioManifest,  \* state.audioManifest of the web client
    targetHz,       \* argument of the last mapTargetHzToSample call
    mapping,        \* value returned by the last mapTargetHzToSample call
    mapError,       \* error thrown by the last mapTargetHzToSample call
    resolution,     \* argument and outcome of resolveSampleIdForNote, when the
                    \* last mapTargetHzToSample call was made by it
    payloading,     \* arguments and outcome of the last buildNotePayloads call
    clamping,       \* argument and outcome of the last
                    \* clampFrequencyToSampleRange call
    sampling,       \* arguments and outcome of a sampleWithoutReplacement call
    activeVoices,   \* state.activeVoices: the sources scheduled and not ended
    sourceCount,    \* number of buffer sources created so far
    isPlaying,      \* state.isPlaying
    playback,       \* position inside playNotes and the number of its notes
    voiceEvent,     \* what the last trigger did: notes started and dropped
    view,           \* the view that is shown
    stateSession,   \* state.session
    currentIndex,   \* state.currentIndex
    answers,        \* state.answers
    currentAnswered,       \* state.currentAnswered
    sequenceInput,         \* state.sequenceInput
    selectedAccidental,    \* state.selectedAccidental
    answerButtonsDisabled, \* the buttons of the answer area are disabled
    feedback,       \* the message shown by setFeedback
    result,         \* the score shown by renderResult
    historyViews,   \* the views that have an entry in window.history
    judged,         \* arguments and outcome of an isCorrect call
    tuning,         \* arguments and outcome of calculateDoFrequency calls
    sampleBufferCache,       \* state.sampleBufferCache: per sample id, the
                             \* instrument whose file the buffer was decoded from
    sampleFetchPromises,     \* state.sampleFetchPromises: per sample id, the
                             \* number of the promise it holds
    fetches,                 \* the promises ensureSampleBuffer created so far
    ensured,                 \* argument and outcome of the last
                             \* ensureSampleBuffer call
    sampleLoadPromise,       \* state.sampleLoadPromise
    audioManifestInstrument, \* state.audioManifestInstrument
    settingsInstrument,      \* state.settings.instrument
    instrumentSelect,        \* ui.instrumentSelect.value
    settingsChange,          \* the onSettingsChange call that waits
    sessionStart,            \* the startSession call that waits
    savedResults,   \* the number of runs of saveSessionResult for state.session:
                    \* the history entries and the attempts it has added
    starts,         \* the startSession calls of the web client that wait
    heldTones,      \* state.heldTones: per tone id, the entry it holds
    released,       \* per tone id: the release of the tone in the table has
                    \* been requested
    audioCtx,       \* state.audioCtx: "unavailable" (the browser has no
                    \* WebAudio), "none" or "created"
    manifestLoads,  \* the loadAudioManifest calls of onSettingsChange that wait,
                    \* when the changes of instrument may overlap
    unlockCtx,      \* state.audioCtx of the client that unlocks audio: "none",
                    \* or the state of the context, "suspended" or "running"
    audioUnlocked,  \* state.audioUnlocked
    audioUnlockPromise,         \* state.audioUnlockPromise is set
    audioUnlockFailures,        \* state.audioUnlockFailures
    audioUnlockPendingGesture,  \* state.audioUnlockPendingGesture
    unlockAttempts, \* the stages of the unlock attempts in flight
    unlockResult,   \* what the latest step has made unlockAudioPipeline
                    \* return: "none", "true" or "false"
    ensuring,       \* the ensureAudioContextRunning call under way
    picking,        \* a call of pickCompareNotes or pickSortNotes on its own
    keyboardMode,   \* state.keyboardMode: "compact" or "full"
    touchOctaveUpActive,        \* state.touchOctaveUpActive
    touchOctaveDownActive,      \* state.touchOctaveDownActive
    touchOctaveShift,           \* state.touchOctaveShift
    octaveExitHoldTimer,        \* state.octaveExitHoldTimer is set
    fullKeyboardPointerTargets, \* state.fullKeyboardPointerTargets: per pointer
                    \* id, the kind of button it went down on, or "none"
    pointerAt,      \* per pointer: the button of the full keyboard that the
                    \* finger is down on, or "none"
    tap             \* the tap of a degree button that the latest step has played

genVars ==
    <<options, pc, module, effectiveLevel, notesPool, doFrequency, questions, session, error,
      rng, catalog, calls>>

mapVars ==
    <<audioManifest, targetHz, mapping, mapError, resolution, payloading, clamping>>

sampleVars == <<sampling>>

voiceVars == <<activeVoices, sourceCount, isPlaying, playback, voiceEvent>>

quizVars ==
    <<view, stateSession, currentIndex, answers, currentAnswered, sequenceInput,
      selectedAccidental, answerButtonsDisabled, feedback, result, historyViews>>

judgeVars == <<judged>>

tuneVars == <<tuning>>

\* the variables of the specifications that follow the quiz
switchVars ==
    <<audioManifestInstrument, settingsInstrument, instrumentSelect, settingsChange,
      sessionStart>>

loadVars ==
    <<sampleBufferCache, sampleFetchPromises, fetches, ensured, sampleLoadPromise,
      switchVars>>

\* the variables of the specifications that follow calculateDoFrequency
navVars == <<savedResults, starts>>

heldVars == <<heldTones, released, audioCtx>>

\* the variables of the specifications that follow the quiz with startSession
\* split
\* the variables of the specifications that follow the held tones
unlockVars ==
    <<unlockCtx, audioUnlocked, audioUnlockPromise, audioUnlockFailures,
      audioUnlockPendingGesture, unlockAttempts, unlockResult, ensuring>>

\* the variables of the specifications that follow the changes of instrument
\* that overlap
\* the variables of the specifications that follow the unlock of audio
octaveVars ==
    <<keyboardMode, touchOctaveUpActive, touchOctaveDownActive, touchOctaveShift,
      octaveExitHoldTimer, fullKeyboardPointerTargets, pointerAt, tap>>

\* the variables of the specifications that follow the note pickers
afterPickVars == <<octaveVars>>

afterUnlockVars == <<picking, afterPickVars>>

afterOverlapVars == <<unlockVars, afterUnlockVars>>

afterHeldVars == <<manifestLoads, afterOverlapVars>>

afterNavVars == <<heldVars, afterHeldVars>>

laterVars == <<loadVars, navVars, afterNavVars>>

restVars == <<tuneVars, laterVars>>

\* the variables that generateSession and the sample mapper leave alone
otherVars == <<sampleVars, voiceVars, quizVars, judgeVars, restVars>>

vars == <<genVars, mapVars, otherVars>>

-----------------------------------------------------------------------------
(* Bounds *)

\* seeds of the random source are 0..MaxSeed
MaxSeed == 3

\* manifests hold at most MaxManifestLen samples
MaxManifestLen == 3

-----------------------------------------------------------------------------
(* JavaScript values *)

Undefined == "undefined"

\* null, as returned by intervalConstraintForLevel; no semitone spacing is negative
null == -1

NoSession == [sessionId |-> Undefined]

\* the locals module and doFrequency before they are assigned
NoModule == [id |-> Undefined]

NoFrequency == [baseDo |-> 0, twelfths |-> 0]

NoError == ""

Max(a, b) == IF a >= b THEN a ELSE b

Min(a, b) == IF a <= b THEN a ELSE b

Abs(a) == IF a < 0 THEN 0 - a ELSE a

-----------------------------------------------------------------------------
(* Static catalogs *)

\* variant: the loop stops one question early
QuestionCountShort == 20 - 1

QUESTION_COUNT == 20

EQUAL_TEMPERAMENT == "equal_temperament"

PITCH_MODULE_LEVELS == <<"L1", "L2", "L3", "L4", "L5", "L6">>

TEMPERAMENT_OPTIONS == <<[id |-> EQUAL_TEMPERAMENT]>>

KEY_OPTIONS ==
    << [id |-> "C"], [id |-> "C#/Db"], [id |-> "D"], [id |-> "D#/Eb"],
       [id |-> "E"], [id |-> "F"], [id |-> "F#/Gb"], [id |-> "G"],
       [id |-> "G#/Ab"], [id |-> "A"], [id |-> "A#/Bb"], [id |-> "B"] >>

\* new Map(KEY_OPTIONS.map((entry, index) => [entry.id, index]))
KEY_OFFSETS ==
    [id \in {KEY_OPTIONS[i].id : i \in 1..Len(KEY_OPTIONS)} |->
        (CHOOSE i \in 1..Len(KEY_OPTIONS) : KEY_OPTIONS[i].id = id) - 1]

\* base Do at C in units of 1e-4 Hz (130.8 Hz and 261.6 Hz)
MALE_DO_C == 1308000

FEMALE_DO_C == 2616000

GENDER_BASE_DO == [male |-> MALE_DO_C, female |-> FEMALE_DO_C]

INSTRUMENT_OPTIONS == <<[id |-> "piano"], [id |-> "guitar"]>>

CHROMA_NOTES ==
    << [token |-> "1", display |-> "1", degree |-> 1, accidental |-> "natural", semitone |-> 0],
       [token |-> "#1", display |-> "#1/b2", degree |-> 1, accidental |-> "sharp", semitone |-> 1,
        enharmonicDegree |-> 2, enharmonicAccidental |-> "flat"],
       [token |-> "2", display |-> "2", degree |-> 2, accidental |-> "natural", semitone |-> 2],
       [token |-> "#2", display |-> "#2/b3", degree |-> 2, accidental |-> "sharp", semitone |-> 3,
        enharmonicDegree |-> 3, enharmonicAccidental |-> "flat"],
       [token |-> "3", display |-> "3", degree |-> 3, accidental |-> "natural", semitone |-> 4],
       [token |-> "4", display |-> "4", degree |-> 4, accidental |-> "natural", semitone |-> 5],
       [token |-> "#4", display |-> "#4/b5", degree |-> 4, accidental |-> "sharp", semitone |-> 6,
        enharmonicDegree |-> 5, enharmonicAccidental |-> "flat"],
       [token |-> "5", display |-> "5", degree |-> 5, accidental |-> "natural", semitone |-> 7],
       [token |-> "#5", display |-> "#5/b6", degree |-> 5, accidental |-> "sharp", semitone |-> 8,
        enharmonicDegree |-> 6, enharmonicAccidental |-> "flat"],
       [token |-> "6", display |-> "6", degree |-> 6, accidental |-> "natural", semitone |-> 9],
       [token |-> "#6", display |-> "#6/b7", degree |-> 6, accidental |-> "sharp", semitone |-> 10,
        enharmonicDegree |-> 7, enharmonicAccidental |-> "flat"],
       [token |-> "7", display |-> "7", degree |-> 7, accidental |-> "natural", semitone |-> 11] >>

\* new Map(CHROMA_NOTES.map((note) => [note.token, note]))
NOTE_BY_TOKEN ==
    [token \in {CHROMA_NOTES[i].token : i \in 1..Len(CHROMA_NOTES)} |->
        CHROMA_NOTES[CHOOSE i \in 1..Len(CHROMA_NOTES) : CHROMA_NOTES[i].token = token]]

DIFFICULTY_LEVELS ==
    [ L1 |-> [id |-> "L1_TRIAD", tokens |-> <<"1", "3", "5">>],
      L2 |-> [id |-> "L2_PENTA", tokens |-> <<"1", "2", "3", "5", "6">>],
      L3 |-> [id |-> "L3_HEPTA", tokens |-> <<"1", "2", "3", "4", "5", "6", "7">>],
      L4 |-> [id |-> "L4_CHROMA",
              tokens |-> <<"1", "#1", "2", "#2", "3", "4", "#4", "5", "#5", "6", "#6", "7">>],
      L5 |-> [id |-> "L5_WHOLE_TONE",
              tokens |-> <<"1", "#1", "2", "#2", "3", "4", "#4", "5", "#5", "6", "#6", "7">>],
      L6 |-> [id |-> "L6_SEMITONE",
              tokens |-> <<"1", "#1", "2", "#2", "3", "4", "#4", "5", "#5", "6", "#6", "7">>] ]

\* one loop of buildModules: a module per level, numbered from firstOrder
ModulesFor(prefix, questionType, levels, firstOrder) ==
    [i \in 1..Len(levels) |->
        [id |-> prefix \o "-" \o levels[i],
         questionType |-> questionType,
         level |-> levels[i],
         recommendedOrder |-> firstOrder + i - 1]]

buildModules ==
    ModulesFor("M2", "compare_two", PITCH_MODULE_LEVELS, 1)
    \o ModulesFor("M3", "sort_three", PITCH_MODULE_LEVELS, 7)
    \o ModulesFor("M4", "sort_four", PITCH_MODULE_LEVELS, 13)
    \o ModulesFor("MI", "interval_scale", <<"L1", "L2", "L3">>, 19)
    \o ModulesFor("MS", "single_note", <<"L1", "L2", "L3", "L4">>, 22)

MODULES == buildModules

\* new Map(MODULES.map((module) => [module.id, module]))
MODULE_MAP ==
    [id \in {MODULES[i].id : i \in 1..Len(MODULES)} |->
        MODULES[CHOOSE i \in 1..Len(MODULES) : MODULES[i].id = id]]

\* the catalogs as they are when the module has been loaded
LoadedCatalog == [modules |-> MODULES, levels |-> DIFFICULTY_LEVELS, notes |-> CHROMA_NOTES]

-----------------------------------------------------------------------------
(* The random source *)

\* Math.random(): a linear congruential generator; the value returned after a
\* step is rng / RngMod in [0, 1)
RngMod == 65536

RngA == 25173

RngC == 13849

NextRandom(r) == (RngA * r + RngC) % RngMod

\* Math.floor(Math.random() * n), for the generator state reached by the step
RandomIndex(r, n) == (r * n) \div RngMod

\* randomChoice(values): the chosen value and the new generator state
randomChoice(values, r) ==
    LET r1 == NextRandom(r)
    IN  [value |-> values[RandomIndex(r1, Len(values)) + 1], rng |-> r1]

RECURSIVE ShuffleFromOverwriting(_, _, _)
\* variant: the loop copies values[swapIndex] to values[index] and does not
\* put the former values[index] in its place
ShuffleFromOverwriting(values, index, r) ==
    IF index <= 0
    THEN [values |-> values, rng |-> r]
    ELSE LET r1 == NextRandom(r)
             swapIndex == RandomIndex(r1, index + 1)
             copied == [values EXCEPT ![index + 1] = values[swapIndex + 1]]
         IN  ShuffleFromOverwriting(copied, index - 1, r1)

RECURSIVE ShuffleFrom(_, _, _)
\* the loop of shuffleInPlace from position index (0-based) downwards
ShuffleFrom(values, index, r) ==
    IF index <= 0
    THEN [values |-> values, rng |-> r]
    ELSE LET r1 == NextRandom(r)
             swapIndex == RandomIndex(r1, index + 1)
             swapped == [values EXCEPT ![index + 1] = values[swapIndex + 1],
                                       ![swapIndex + 1] = values[index + 1]]
         IN  ShuffleFrom(swapped, index - 1, r1)

shuffleInPlace(values, r) == ShuffleFrom(values, Len(values) - 1, r)

\* variant: sampling the whole list is refused
sampleWithoutReplacementStrict(values, count, r) ==
    IF count >= Len(values)
    THEN [thrown |-> TRUE, values |-> <<>>, rng |-> r, argument |-> values]
    ELSE LET shuffled == shuffleInPlace(values, r)
         IN  [thrown |-> FALSE,
              values |-> SubSeq(shuffled.values, 1, count),
              rng |-> shuffled.rng,
              argument |-> values]

\* variant: the list itself is shuffled, not a copy of it
sampleWithoutReplacementInPlace(values, count, r) ==
    IF count > Len(values)
    THEN [thrown |-> TRUE, values |-> <<>>, rng |-> r, argument |-> values]
    ELSE LET shuffled == shuffleInPlace(values, r)
         IN  [thrown |-> FALSE,
              values |-> SubSeq(shuffled.values, 1, count),
              rng |-> shuffled.rng,
              argument |-> shuffled.values]

\* variant: the size check is missing, slice returns what there is
sampleWithoutReplacementTruncating(values, count, r) ==
    LET shuffled == shuffleInPlace(values, r)
    IN  [thrown |-> FALSE,
         values |-> SubSeq(shuffled.values, 1, Min(count, Len(values))),
         rng |-> shuffled.rng,
         argument |-> values]

\* sampleWithoutReplacement(values, count); thrown is TRUE when it throws,
\* argument is the array that was passed as it is after the call: the shuffle
\* works on a copy ([...values]) and leaves it as it was
sampleWithoutReplacement(values, count, r) ==
    IF count > Len(values)
    THEN [thrown |-> TRUE, values |-> <<>>, rng |-> r, argument |-> values]
    ELSE LET shuffled == shuffleInPlace(values, r)
         IN  [thrown |-> FALSE,
              values |-> SubSeq(shuffled.values, 1, count),
              rng |-> shuffled.rng,
              argument |-> values]

-----------------------------------------------------------------------------
(* Frequencies *)

\* roundTo(MALE_DO_C * 2 ** (n / 12), 4) for n = 0..22, in units of 1e-4 Hz
MaleEqualTemperedE4 ==
    << 1308000, 1385778, 1468180, 1555483, 1647977, 1745971, 1849791, 1959786,
       2076321, 2199785, 2330591, 2469175, 2616000, 2771555, 2936361, 3110966,
       3295953, 3491941, 3699583, 3919571, 4152641, 4399570, 4661182 >>

\* roundTo(FEMALE_DO_C * 2 ** (n / 12), 4) for n = 0..22, in units of 1e-4 Hz
FemaleEqualTemperedE4 ==
    << 2616000, 2771555, 2936361, 3110966, 3295953, 3491941, 3699583, 3919571,
       4152641, 4399570, 4661182, 4938350, 5232000, 5543111, 5872721, 6221932,
       6591907, 6983882, 7399165, 7839143, 8305282, 8799140, 9322364 >>

\* variant: the base of the male voice is used for every gender
calculateDoFrequencyOfMale(gender, keyId) ==
    [baseDo |-> MALE_DO_C, twelfths |-> KEY_OFFSETS[keyId]]

\* calculateDoFrequency(gender, keyId), after its two checks have passed: the
\* exact value baseDo * 2 ** (semitoneShift / 12), kept as its two factors
calculateDoFrequency(gender, keyId) ==
    [baseDo |-> GENDER_BASE_DO[gender], twelfths |-> KEY_OFFSETS[keyId]]

\* noteFrequency(semitone, doFrequency, temperament) for equal temperament
noteFrequency(semitone, doFreq, temperament) ==
    [baseDo |-> doFreq.baseDo, twelfths |-> doFreq.twelfths + semitone]

\* roundTo(value, 4) of an exact frequency, in units of 1e-4 Hz
roundTo4(value) ==
    IF value.baseDo = MALE_DO_C
    THEN MaleEqualTemperedE4[value.twelfths + 1]
    ELSE FemaleEqualTemperedE4[value.twelfths + 1]

\* roundTo(10 + (num / den) * 80, 2), in units of 1e-2
roundHeight(num, den) == (2 * (1000 * den + 8000 * num) + den) \div (2 * den)

-----------------------------------------------------------------------------
(* Note pools and payloads *)

\* variant: every level draws from the whole chromatic taxonomy
getNotePoolChromatic(level) == CHROMA_NOTES

\* definition.tokens.map((token) => NOTE_BY_TOKEN.get(token)): a new array,
\* built from DIFFICULTY_LEVELS as it is when the call is made
getNotePool(level) ==
    [i \in 1..Len(catalog.levels[level].tokens) |->
        NOTE_BY_TOKEN[catalog.levels[level].tokens[i]]]

hasEnharmonic(note) ==
    "enharmonicDegree" \in DOMAIN note /\ "enharmonicAccidental" \in DOMAIN note

buildNotePayload(note, doFreq, temperament) ==
    LET payload == [token |-> note.token,
                    label |-> note.display,
                    degree |-> note.degree,
                    accidental |-> note.accidental,
                    semitone |-> note.semitone,
                    frequency |-> roundTo4(noteFrequency(note.semitone, doFreq, temperament))]
    IN  IF hasEnharmonic(note)
        THEN [token |-> payload.token,
              label |-> payload.label,
              degree |-> payload.degree,
              accidental |-> payload.accidental,
              semitone |-> payload.semitone,
              frequency |-> payload.frequency,
              enharmonic |-> [degree |-> note.enharmonicDegree,
                              accidental |-> note.enharmonicAccidental]]
        ELSE payload

\* buildNotePayloads(notes, doFrequency, temperament, undefined): no mapping
\* callback is supplied
buildNotePayloads(notes, doFreq, temperament) ==
    [i \in 1..Len(notes) |-> buildNotePayload(notes[i], doFreq, temperament)]

\* options.mapTargetFrequency: undefined, or a function. The function
\* returns null or an object whose sampleId is a string or something else
\* (Undefined) and whose midi is a finite number or not (NaN)
NoCallback == [isFunction |-> FALSE, isObject |-> FALSE, sampleId |-> Undefined, midi |-> 0]

CallbackReturning(isObject, sampleId, midi) ==
    [isFunction |-> TRUE, isObject |-> isObject, sampleId |-> sampleId, midi |-> midi]

\* midi values a callback returns; 0 stands for one that is not finite
NoMidi == 0

\* buildNotePayloads(notes, doFrequency, temperament, mapTargetFrequency)
buildNotePayloadsMapped(notes, doFreq, temperament, mapTargetFrequency) ==
    [i \in 1..Len(notes) |->
        LET payload == buildNotePayload(notes[i], doFreq, temperament)
            withSampleId ==
                IF /\ mapTargetFrequency.isFunction
                   /\ mapTargetFrequency.isObject
                   /\ mapTargetFrequency.sampleId # Undefined
                THEN payload @@ [sampleId |-> mapTargetFrequency.sampleId]
                ELSE payload
        IN  IF /\ mapTargetFrequency.isFunction
               /\ mapTargetFrequency.isObject
               /\ mapTargetFrequency.midi # NoMidi
            THEN withSampleId @@ [midi |-> mapTargetFrequency.midi]
            ELSE withSampleId]

\* variant: no override for sort_four at L1
resolveNotePoolLevelPlain(m) == m.level

resolveNotePoolLevel(m) ==
    IF m.questionType = "sort_four" /\ m.level = "L1" THEN "L2" ELSE m.level

\* variant: level L6 carries no spacing constraint
intervalConstraintOnlyL5(level) ==
    IF level = "L5" THEN 2 ELSE null

intervalConstraintForLevel(level) ==
    IF level = "L5" THEN 2
    ELSE IF level = "L6" THEN 1
    ELSE null

SeqMin(values) == CHOOSE v \in {values[i] : i \in 1..Len(values)} :
                    \A i \in 1..Len(values) : v <= values[i]

SeqMax(values) == CHOOSE v \in {values[i] : i \in 1..Len(values)} :
                    \A i \in 1..Len(values) : v >= values[i]

buildVisualHints(notes) ==
    LET semitones == [i \in 1..Len(notes) |-> notes[i].semitone]
        minSemitone == SeqMin(semitones)
        maxSemitone == SeqMax(semitones)
    IN  IF maxSemitone = minSemitone
        THEN [i \in 1..Len(notes) |-> [index |-> i, height |-> 5000]]
        ELSE [i \in 1..Len(notes) |->
                [index |-> i,
                 height |-> roundHeight(notes[i].semitone - minSemitone,
                                        maxSemitone - minSemitone)]]

-----------------------------------------------------------------------------
(* Note pickers *)

\* the index pairs (leftIndex, rightIndex), leftIndex < rightIndex, of a list
\* of n elements, in the order the two nested loops visit them (1-based)
IndexPairs(n) ==
    SelectSeq([k \in 1..(n * n) |-> <<((k - 1) \div n) + 1, ((k - 1) % n) + 1>>],
              LAMBDA pair : pair[1] < pair[2])

\* pickCompareNotes(notesPool, intervalStep): picked notes, or thrown;
\* argument is notesPool as it is after the call
pickCompareNotes(pool, intervalStep, r) ==
    IF intervalStep = null
    THEN sampleWithoutReplacement(pool, 2, r)
    ELSE LET validPairs ==
                 SelectSeq(IndexPairs(Len(pool)),
                           LAMBDA pair :
                               Abs(pool[pair[1]].semitone - pool[pair[2]].semitone) = intervalStep)
         IN  IF Len(validPairs) = 0
             THEN sampleWithoutReplacement(pool, 2, r)
             ELSE LET choice == randomChoice(validPairs, r)
                      picked == <<pool[choice.value[1]], pool[choice.value[2]]>>
                      shuffled == shuffleInPlace(picked, choice.rng)
                  IN  [thrown |-> FALSE, values |-> shuffled.values, rng |-> shuffled.rng,
                       argument |-> pool]

RECURSIVE SortAscending(_)
\* [...keys].sort((left, right) => left - right) for a set of distinct integers
SortAscending(S) ==
    IF S = {}
    THEN <<>>
    ELSE LET least == CHOOSE x \in S : \A y \in S : x <= y
         IN  <<least>> \o SortAscending(S \ {least})

\* new Map(notesPool.map((note) => [note.semitone, note])): a later note of
\* the same semitone replaces an earlier one
noteBySemitoneOf(pool) ==
    [semitone \in {pool[i].semitone : i \in 1..Len(pool)} |->
        pool[CHOOSE i \in 1..Len(pool) :
                /\ pool[i].semitone = semitone
                /\ \A j \in 1..Len(pool) : pool[j].semitone = semitone => j <= i]]

\* variant: the progression wraps around the octave
progressionWrapped(start, intervalStep, noteCount) ==
    [index \in 1..noteCount |-> (start + intervalStep * (index - 1)) % 12]

\* the semitones start + intervalStep * index, index = 0..noteCount-1, that
\* the inner loop of pickSortNotes looks up
progressionFrom(start, intervalStep, noteCount) ==
    [index \in 1..noteCount |-> start + intervalStep * (index - 1)]

\* variant: without a full progression in the pool the call fails
pickSortNotesUnrelaxed(pool, noteCount, intervalStep, r) ==
    IF intervalStep = null
    THEN sampleWithoutReplacement(pool, noteCount, r)
    ELSE LET noteBySemitone == noteBySemitoneOf(pool)
             validStarts ==
                 SelectSeq(SortAscending(DOMAIN noteBySemitone),
                           LAMBDA start :
                               \A index \in 1..noteCount :
                                   progressionFrom(start, intervalStep, noteCount)[index]
                                       \in DOMAIN noteBySemitone)
         IN  IF Len(validStarts) = 0
             THEN [thrown |-> TRUE, values |-> <<>>, rng |-> r, argument |-> pool]
             ELSE LET choice == randomChoice(validStarts, r)
                      picked == [k \in 1..noteCount |->
                                    noteBySemitone[progressionFrom(choice.value, intervalStep,
                                                                   noteCount)[k]]]
                      shuffled == shuffleInPlace(picked, choice.rng)
                  IN  [thrown |-> FALSE, values |-> shuffled.values, rng |-> shuffled.rng,
                       argument |-> pool]

\* pickSortNotes(notesPool, noteCount, intervalStep): picked notes, or thrown;
\* argument is notesPool as it is after the call
pickSortNotes(pool, noteCount, intervalStep, r) ==
    IF intervalStep = null
    THEN sampleWithoutReplacement(pool, noteCount, r)
    ELSE LET noteBySemitone == noteBySemitoneOf(pool)
             semitoneValues == SortAscending(DOMAIN noteBySemitone)
             sequenceFrom(start) == progressionFrom(start, intervalStep, noteCount)
             validStarts ==
                 SelectSeq(semitoneValues,
                           LAMBDA start :
                               \A index \in 1..noteCount :
                                   sequenceFrom(start)[index] \in DOMAIN noteBySemitone)
             validSequences ==
                 [k \in 1..Len(validStarts) |-> sequenceFrom(validStarts[k])]
         IN  IF Len(validSequences) = 0
             THEN sampleWithoutReplacement(pool, noteCount, r)
             ELSE LET choice == randomChoice(validSequences, r)
                      picked == [k \in 1..noteCount |-> noteBySemitone[choice.value[k]]]
                      shuffled == shuffleInPlace(picked, choice.rng)
                  IN  [thrown |-> FALSE, values |-> shuffled.values, rng |-> shuffled.rng,
                       argument |-> pool]

\* getPossibleIntervalDistances(notesPool)
getPossibleIntervalDistances(pool) ==
    SortAscending({ Abs(pool[pair[1]].degree - pool[pair[2]].degree) :
                      pair \in { IndexPairs(Len(pool))[k] : k \in 1..Len(IndexPairs(Len(pool))) } }
                  \ {0})

-----------------------------------------------------------------------------
(* Question construction *)

NoQuestion == [id |-> Undefined]

\* variant: the question number is left out of the id
questionIdOfModule(m, questionNumber) == m.id \o "-Q"

\* `${module.id}-Q${questionNumber}`
questionId(m, questionNumber) == m.id \o "-Q" \o ToString(questionNumber)

RECURSIVE SortedIndicesDescending(_, _)
\* variant: the comparator is reversed
SortedIndicesDescending(picked, remaining) ==
    IF remaining = {}
    THEN <<>>
    ELSE LET first == CHOOSE i \in remaining :
                         \A j \in remaining :
                             \/ picked[i + 1].semitone > picked[j + 1].semitone
                             \/ /\ picked[i + 1].semitone = picked[j + 1].semitone
                                /\ i <= j
         IN  <<first>> \o SortedIndicesDescending(picked, remaining \ {first})

RECURSIVE SortedIndices(_, _)
\* [...Array(noteCount).keys()].sort((left, right) =>
\*     picked[left].semitone - picked[right].semitone), a stable sort: the
\* 0-based indices in remaining, ordered by semitone and then by index
SortedIndices(picked, remaining) ==
    IF remaining = {}
    THEN <<>>
    ELSE LET first == CHOOSE i \in remaining :
                         \A j \in remaining :
                             \/ picked[i + 1].semitone < picked[j + 1].semitone
                             \/ /\ picked[i + 1].semitone = picked[j + 1].semitone
                                /\ i <= j
         IN  <<first>> \o SortedIndices(picked, remaining \ {first})

RECURSIVE join(_, _)
\* values.join(separator)
join(values, separator) ==
    IF Len(values) = 0 THEN ""
    ELSE IF Len(values) = 1 THEN values[1]
    ELSE values[1] \o separator \o join(Tail(values), separator)

\* variant: the comparison is reversed
compareAnswerReversed(picked) ==
    IF picked[1].semitone < picked[2].semitone THEN "first_higher" ELSE "second_higher"

\* picked[0].semitone > picked[1].semitone ? "first_higher" : "second_higher"
compareAnswer(picked) ==
    IF picked[1].semitone > picked[2].semitone THEN "first_higher" ELSE "second_higher"

generateCompareQuestion(m, questionNumber, pool, doFreq, temperament, r) ==
    LET intervalStep == intervalConstraintForLevel(m.level)
        pick == pickCompareNotes(pool, intervalStep, r)
        picked == pick.values
    IN  IF pick.thrown
        THEN [thrown |-> TRUE, question |-> NoQuestion, rng |-> pick.rng,
              pool |-> pick.argument]
        ELSE [thrown |-> FALSE,
              question |->
                  [id |-> questionId(m, questionNumber),
                   type |-> m.questionType,
                   notes |-> buildNotePayloads(picked, doFreq, temperament),
                   visualHints |-> buildVisualHints(picked),
                   choices |-> <<[id |-> "first_higher"], [id |-> "second_higher"]>>,
                   correctAnswer |-> compareAnswer(picked)],
              rng |-> pick.rng,
              pool |-> pick.argument]

generateSortQuestion(m, questionNumber, pool, doFreq, temperament, r, noteCount) ==
    LET intervalStep == intervalConstraintForLevel(m.level)
        pick == pickSortNotes(pool, noteCount, intervalStep, r)
        picked == pick.values
        sortedIndices == SortedIndices(picked, 0..(noteCount - 1))
    IN  IF pick.thrown
        THEN [thrown |-> TRUE, question |-> NoQuestion, rng |-> pick.rng,
              pool |-> pick.argument]
        ELSE [thrown |-> FALSE,
              question |->
                  [id |-> questionId(m, questionNumber),
                   type |-> m.questionType,
                   notes |-> buildNotePayloads(picked, doFreq, temperament),
                   visualHints |-> buildVisualHints(picked),
                   choices |-> [positions |-> [index \in 1..noteCount |-> ToString(index)],
                                format |-> "index_sequence"],
                   correctAnswer |->
                       join([k \in 1..noteCount |-> ToString(sortedIndices[k] + 1)], "-")],
              rng |-> pick.rng,
              pool |-> pick.argument]

\* variant: the distance is counted in semitones
generateIntervalQuestionInSemitones(m, questionNumber, pool, doFreq, temperament, r) ==
    LET pick == sampleWithoutReplacement(pool, 2, r)
        picked == pick.values
        possibleDistances == getPossibleIntervalDistances(pool)
    IN  IF pick.thrown
        THEN [thrown |-> TRUE, question |-> NoQuestion, rng |-> pick.rng,
              pool |-> pick.argument]
        ELSE [thrown |-> FALSE,
              question |->
                  [id |-> questionId(m, questionNumber),
                   type |-> m.questionType,
                   notes |-> buildNotePayloads(picked, doFreq, temperament),
                   visualHints |-> buildVisualHints(picked),
                   choices |-> [k \in 1..Len(possibleDistances) |->
                                   ToString(possibleDistances[k])],
                   correctAnswer |-> ToString(Abs(picked[1].semitone - picked[2].semitone))],
              rng |-> pick.rng,
              pool |-> pick.argument]

generateIntervalQuestion(m, questionNumber, pool, doFreq, temperament, r) ==
    LET pick == sampleWithoutReplacement(pool, 2, r)
        picked == pick.values
        possibleDistances == getPossibleIntervalDistances(pool)
    IN  IF pick.thrown
        THEN [thrown |-> TRUE, question |-> NoQuestion, rng |-> pick.rng,
              pool |-> pick.argument]
        ELSE [thrown |-> FALSE,
              question |->
                  [id |-> questionId(m, questionNumber),
                   type |-> m.questionType,
                   notes |-> buildNotePayloads(picked, doFreq, temperament),
                   visualHints |-> buildVisualHints(picked),
                   choices |-> [k \in 1..Len(possibleDistances) |->
                                   ToString(possibleDistances[k])],
                   correctAnswer |-> ToString(Abs(picked[1].degree - picked[2].degree))],
              rng |-> pick.rng,
              pool |-> pick.argument]

generateSingleNoteQuestion(m, questionNumber, pool, doFreq, temperament, r) ==
    IF Len(pool) = 0
    THEN [thrown |-> TRUE, question |-> NoQuestion, rng |-> r, pool |-> pool]
    ELSE LET choice == randomChoice(pool, r)
             picked == choice.value
             primary == [degree |-> ToString(picked.degree),
                         accidental |-> picked.accidental]
             correctAnswer ==
                 IF hasEnharmonic(picked)
                 THEN [degree |-> primary.degree,
                       accidental |-> primary.accidental,
                       accepted |-> <<[degree |-> ToString(picked.enharmonicDegree),
                                       accidental |-> picked.enharmonicAccidental]>>]
                 ELSE primary
         IN  [thrown |-> FALSE,
              question |->
                  [id |-> questionId(m, questionNumber),
                   type |-> m.questionType,
                   notes |-> <<buildNotePayloads(<<picked>>, doFreq, temperament)[1]>>,
                   visualHints |-> <<>>,
                   choices |-> [degrees |-> <<"1", "2", "3", "4", "5", "6", "7">>,
                                accidentals |-> IF m.level = "L4"
                                                THEN <<"flat", "natural", "sharp">>
                                                ELSE <<"natural">>,
                                requiresAccidental |-> (m.level = "L4")],
                   correctAnswer |-> correctAnswer],
              rng |-> choice.rng,
              pool |-> pool]

\* generateQuestion(...): the question or thrown, the new state of the random
\* source, and notesPool as it is after the call
generateQuestion(m, questionNumber, pool, doFreq, temperament, r) ==
    IF m.questionType = "compare_two"
    THEN generateCompareQuestion(m, questionNumber, pool, doFreq, temperament, r)
    ELSE IF m.questionType = "sort_three"
    THEN generateSortQuestion(m, questionNumber, pool, doFreq, temperament, r, 3)
    ELSE IF m.questionType = "sort_four"
    THEN generateSortQuestion(m, questionNumber, pool, doFreq, temperament, r, 4)
    ELSE IF m.questionType = "interval_scale"
    THEN generateIntervalQuestion(m, questionNumber, pool, doFreq, temperament, r)
    ELSE IF m.questionType = "single_note"
    THEN generateSingleNoteQuestion(m, questionNumber, pool, doFreq, temperament, r)
    ELSE [thrown |-> TRUE, question |-> NoQuestion, rng |-> r, pool |-> pool]

-----------------------------------------------------------------------------
(* Sample mapper (web/assets/app.js) *)

\* A JavaScript number is a record: a finite number carries its value, NaN
\* and Infinity are the two non-finite numbers the specification uses.
\* Frequencies of the mapper are whole numbers of an arbitrary unit: the
\* mapper only ever uses ratios of frequencies.
Number(v) == [finite |-> TRUE, nan |-> FALSE, value |-> v]

NaN == [finite |-> FALSE, nan |-> TRUE, value |-> 0]

Infinity == [finite |-> FALSE, nan |-> FALSE, value |-> 1]

\* state.audioManifest: null, an object whose samples is not an array, or an
\* object with a samples array
NoManifest == [isObject |-> FALSE, samplesIsArray |-> FALSE, samples |-> <<>>]

MalformedManifest == [isObject |-> TRUE, samplesIsArray |-> FALSE, samples |-> <<>>]

Manifest(samples) == [isObject |-> TRUE, samplesIsArray |-> TRUE, samples |-> samples]

NoSample == [id |-> Undefined, hz |-> 0]

NoMapping == [sampleId |-> Undefined]

\* 1200 * Math.log2(targetHz / sampleHz), kept exactly as the ratio whose
\* logarithm it is: positive when num > den, zero when num = den
centsErrorOf(target, sampleHz) == [num |-> target, den |-> sampleHz]

\* Math.abs(centsError): the ratio turned so that it is at least 1
absCentsOf(centsError) ==
    [num |-> Max(centsError.num, centsError.den),
     den |-> Min(centsError.num, centsError.den)]

\* Number.POSITIVE_INFINITY as an absolute cents value
InfiniteCents == [num |-> 1, den |-> 0]

\* left < right for absolute cents values (log2 is strictly increasing, so
\* the logarithms compare as the ratios do)
centsLess(left, right) == left.num * right.den < right.num * left.den

\* variant: a target of zero passes the check
isInvalidTargetBelowZero(target) == ~target.finite \/ target.value < 0

\* !Number.isFinite(targetHz) || targetHz <= 0
isInvalidTarget(target) == ~target.finite \/ target.value <= 0

\* variant: a later entry of equal error replaces the earlier one
isNearerOrEqual(absCents, nearestCents) == ~centsLess(nearestCents, absCents)

\* the test of the scan, line 1082: absCents < nearestCents
isNearer(absCents, nearestCents) == centsLess(absCents, nearestCents)

RECURSIVE scanSamplesFromSecond(_, _, _, _)
\* variant: the loop starts at the second entry
scanSamplesFromSecond(samples, index, target, nearest) ==
    IF index > Len(samples)
    THEN nearest
    ELSE LET sample == samples[index]
             absCents == absCentsOf(centsErrorOf(target, sample.hz))
         IN  IF index > 1 /\ isNearer(absCents, nearest.nearestCents)
             THEN scanSamplesFromSecond(samples, index + 1, target,
                                        [nearestSample |-> sample, nearestCents |-> absCents])
             ELSE scanSamplesFromSecond(samples, index + 1, target, nearest)

RECURSIVE scanSamples(_, _, _, _)
\* the for loop of mapTargetHzToSample over samples[index..]
scanSamples(samples, index, target, nearest) ==
    IF index > Len(samples)
    THEN nearest
    ELSE LET sample == samples[index]
             absCents == absCentsOf(centsErrorOf(target, sample.hz))
         IN  IF isNearer(absCents, nearest.nearestCents)
             THEN scanSamples(samples, index + 1, target,
                              [nearestSample |-> sample, nearestCents |-> absCents])
             ELSE scanSamples(samples, index + 1, target, nearest)

\* variant: the manifest and the outcome of the scan are not checked
mapTargetHzToSampleUnchecked(target, manifest) ==
    IF isInvalidTarget(target)
    THEN [thrown |-> "Invalid target frequency", mapping |-> NoMapping]
    ELSE LET nearest == scanSamples(manifest.samples, 1, target.value,
                                    [nearestSample |-> NoSample,
                                     nearestCents |-> InfiniteCents])
         IN  [thrown |-> NoError,
              mapping |-> [sampleId |-> nearest.nearestSample.id,
                           sampleHz |-> nearest.nearestSample.hz,
                           centsError |-> centsErrorOf(target.value,
                                                       nearest.nearestSample.hz)]]

\* mapTargetHzToSample(targetHz): the mapping, or the error thrown
mapTargetHzToSample(target, manifest) ==
    IF isInvalidTarget(target)
    THEN [thrown |-> "Invalid target frequency", mapping |-> NoMapping]
    ELSE IF ~manifest.isObject \/ ~manifest.samplesIsArray
    THEN [thrown |-> "Piano sample manifest is unavailable", mapping |-> NoMapping]
    ELSE LET nearest == scanSamples(manifest.samples, 1, target.value,
                                    [nearestSample |-> NoSample,
                                     nearestCents |-> InfiniteCents])
         IN  IF nearest.nearestSample = NoSample
             THEN [thrown |-> "No sample available", mapping |-> NoMapping]
             ELSE [thrown |-> NoError,
                   mapping |-> [sampleId |-> nearest.nearestSample.id,
                                sampleHz |-> nearest.nearestSample.hz,
                                centsError |-> centsErrorOf(target.value,
                                                            nearest.nearestSample.hz)]]

\* MAX_CENTS_ERROR = 10 as an absolute cents value. Ten cents is the ratio
\* 2 ** (1 / 120), which no two whole-number frequencies have; 1389 / 1381
\* (9.99994 cents) is the greatest ratio of whole numbers below 2244 that does
\* not exceed it, so that for frequencies below 2244 a ratio is at most
\* MAX_CENTS_ERROR exactly when its cents value is at most 10.
MAX_CENTS_ERROR == [num |-> 1389, den |-> 1381]

\* variant: a mapping at the threshold is refused
validateMappingStrict(nearestMapping, target) ==
    IF centsLess(absCentsOf(nearestMapping.centsError), MAX_CENTS_ERROR)
    THEN NoError
    ELSE "Sample mapping exceeds MAX_CENTS_ERROR cents"

\* validateMapping(mapping, targetHz): the message of the error it throws,
\* NoError when it returns
validateMapping(nearestMapping, target) ==
    IF ~centsLess(MAX_CENTS_ERROR, absCentsOf(nearestMapping.centsError))
    THEN NoError
    ELSE "Sample mapping exceeds MAX_CENTS_ERROR cents"

\* the keys of state.sampleById, set from the manifest when it is loaded
sampleById(manifest) == {manifest.samples[i].id : i \in 1..Len(manifest.samples)}

NoResolution ==
    [note |-> [frequency |-> NaN, sampleId |-> Undefined],
     thrown |-> NoError, sampleId |-> Undefined, mapped |-> FALSE]

\* no clampFrequencyToSampleRange call has been made
NoClamping == [frequency |-> 0, returned |-> 0, called |-> FALSE, again |-> FALSE]

RECURSIVE minHzOf(_, _, _)
\* the loop of clampFrequencyToSampleRange for minHz over samples[index..];
\* isSet is FALSE while minHz is Number.POSITIVE_INFINITY
minHzOf(samples, index, least) ==
    IF index > Len(samples)
    THEN least
    ELSE IF ~least.isSet \/ samples[index].hz < least.hz
    THEN minHzOf(samples, index + 1, [isSet |-> TRUE, hz |-> samples[index].hz])
    ELSE minHzOf(samples, index + 1, least)

RECURSIVE maxHzOf(_, _, _)
\* the same loop for maxHz, which starts at Number.NEGATIVE_INFINITY
maxHzOf(samples, index, greatest) ==
    IF index > Len(samples)
    THEN greatest
    ELSE IF ~greatest.isSet \/ samples[index].hz > greatest.hz
    THEN maxHzOf(samples, index + 1, [isSet |-> TRUE, hz |-> samples[index].hz])
    ELSE maxHzOf(samples, index + 1, greatest)

\* variant: the lower end of the range is not applied
clampFrequencyToSampleRangeFromAbove(frequency, manifest) ==
    IF ~manifest.isObject \/ ~manifest.samplesIsArray \/ Len(manifest.samples) = 0
    THEN frequency
    ELSE Min(maxHzOf(manifest.samples, 1, [isSet |-> FALSE, hz |-> 0]).hz, frequency)

\* clampFrequencyToSampleRange(frequency) for a frequency that is a finite
\* number; the hz of the samples are finite, so that minHz and maxHz are
\* finite after the loop over a samples array that is not empty
clampFrequencyToSampleRange(frequency, manifest) ==
    IF ~manifest.isObject \/ ~manifest.samplesIsArray \/ Len(manifest.samples) = 0
    THEN frequency
    ELSE LET minHz == minHzOf(manifest.samples, 1, [isSet |-> FALSE, hz |-> 0])
             maxHz == maxHzOf(manifest.samples, 1, [isSet |-> FALSE, hz |-> 0])
         IN  IF ~minHz.isSet \/ ~maxHz.isSet
             THEN frequency
             ELSE Min(maxHz.hz, Max(minHz.hz, frequency))

\* no buildNotePayloads call has been made
NoPayloading == [notes |-> <<>>, callback |-> NoCallback, payloads |-> <<>>, called |-> FALSE]

\* variant: the sampleId of the note is not looked at
resolveSampleIdForNoteMapping(note, manifest) ==
    LET mapped == mapTargetHzToSample(note.frequency, manifest)
    IN  IF mapped.thrown # NoError
        THEN [thrown |-> mapped.thrown, sampleId |-> Undefined, mapped |-> TRUE]
        ELSE IF validateMapping(mapped.mapping, note.frequency) # NoError
        THEN [thrown |-> validateMapping(mapped.mapping, note.frequency),
              sampleId |-> Undefined, mapped |-> TRUE]
        ELSE [thrown |-> NoError, sampleId |-> mapped.mapping.sampleId,
              mapped |-> TRUE]

\* resolveSampleIdForNote(note): the sample id, or the error thrown; mapped
\* tells whether mapTargetHzToSample was called
resolveSampleIdForNote(note, manifest) ==
    IF note.sampleId # Undefined /\ note.sampleId \in sampleById(manifest)
    THEN [thrown |-> NoError, sampleId |-> note.sampleId, mapped |-> FALSE]
    ELSE LET mapped == mapTargetHzToSample(note.frequency, manifest)
         IN  IF mapped.thrown # NoError
             THEN [thrown |-> mapped.thrown, sampleId |-> Undefined, mapped |-> TRUE]
             ELSE IF validateMapping(mapped.mapping, note.frequency) # NoError
             THEN [thrown |-> validateMapping(mapped.mapping, note.frequency),
                   sampleId |-> Undefined, mapped |-> TRUE]
             ELSE [thrown |-> NoError, sampleId |-> mapped.mapping.sampleId,
                   mapped |-> TRUE]

-----------------------------------------------------------------------------
(* sampleWithoutReplacement called on its own *)

\* lists of at most MaxSampleLen elements are sampled
MaxSampleLen == 4

\* no call has been made: the arguments wait for it
SamplingOf(values, count) ==
    [values |-> values, count |-> count, called |-> FALSE,
     thrown |-> FALSE, returned |-> <<>>, argument |-> values]

NoSampling == SamplingOf(<<>>, 0)

NoPlayback == [pc |-> "idle", noteCount |-> 0]

NoVoiceEvent == [started |-> 0, dropped |-> 0]

\* state.activeVoices, state.isPlaying as the page sets them up
VoicesIdle ==
    /\ activeVoices = <<>>
    /\ sourceCount = 0
    /\ isPlaying = FALSE
    /\ playback = NoPlayback
    /\ voiceEvent = NoVoiceEvent

\* a JavaScript string and the object { degree, accidental } as values whose
\* type can be asked for (typeof)
JsString(text) == [type |-> "string", string |-> text]

JsObject(degree, accidental) == [type |-> "object", degree |-> degree, accidental |-> accidental]

\* state.session = null
NoClientSession == [present |-> FALSE, moduleId |-> Undefined, questions |-> <<>>]

\* an entry of state.answers that is null
NoRecord == [questionIndex |-> 0]

NoResult == [correctCount |-> 0, total |-> 0, wrongCount |-> 0, shown |-> FALSE]

\* the state object as the page sets it up, on the dashboard
QuizIdle ==
    /\ view = "dashboardView"
    /\ stateSession = NoClientSession
    /\ currentIndex = 0
    /\ answers = <<>>
    /\ currentAnswered = FALSE
    /\ sequenceInput = <<>>
    /\ selectedAccidental = "natural"
    /\ answerButtonsDisabled = FALSE
    /\ feedback = ""
    /\ result = NoResult
    /\ historyViews = {"dashboardView"}

\* no isCorrect call has been made: the arguments wait for it
JudgingOf(question, answer) ==
    [question |-> question, answer |-> answer, called |-> FALSE, correct |-> FALSE]

NoJudging == JudgingOf(NoQuestion, JsString(""))

\* no calculateDoFrequency call has been made: the arguments wait for it
TuningOf(gender, keyId, otherKeyId) ==
    [gender |-> gender, keyId |-> keyId, otherKeyId |-> otherKeyId, called |-> FALSE,
     male |-> NoFrequency, female |-> NoFrequency, other |-> NoFrequency]

NoTuning == TuningOf(Undefined, Undefined, Undefined)

\* the sample ids of the manifest, the same for every instrument, and an
\* id that no manifest has
ManifestSampleIds == <<"m060", "m069">>

LoadIds == {"m060", "m069", "m999"}

Instruments == {"piano", "guitar"}

NoBuffer == "none"

NoPromise == 0

NoEnsured == [sampleId |-> Undefined, kind |-> "none", promise |-> NoPromise]

NoLoadPromise == [present |-> FALSE, awaits |-> {}]

NoManifestLoad == [pending |-> FALSE, previous |-> Undefined, instrument |-> Undefined]

LoaderIdle ==
    /\ sampleBufferCache = [id \in LoadIds |-> NoBuffer]
    /\ sampleFetchPromises = [id \in LoadIds |-> NoPromise]
    /\ fetches = <<>>
    /\ ensured = NoEnsured
    /\ sampleLoadPromise = NoLoadPromise
    /\ audioManifestInstrument = "piano"
    /\ settingsInstrument = "piano"
    /\ instrumentSelect = "piano"
    /\ settingsChange = NoManifestLoad
    /\ sessionStart = NoManifestLoad

NavIdle ==
    /\ savedResults = 0
    /\ starts = <<>>

\* the tone ids of one key of the desktop keyboard and of one pointer
ToneIds == {"kbd:1", "touch:7"}

\* no entry of state.heldTones
NoTone ==
    [present |-> FALSE, pending |-> FALSE, requestedStop |-> FALSE, hasSource |-> FALSE,
     fresh |-> FALSE, stopTimer |-> FALSE]

HeldIdle ==
    /\ heldTones = [toneId \in ToneIds |-> NoTone]
    /\ released = [toneId \in ToneIds |-> FALSE]
    /\ audioCtx = "none"

NoEnsuring == [pc |-> "idle", waits |-> FALSE, unlocked |-> FALSE, outcome |-> "none"]

UnlockIdle ==
    /\ unlockCtx = "none"
    /\ audioUnlocked = FALSE
    /\ audioUnlockPromise = FALSE
    /\ audioUnlockFailures = 0
    /\ audioUnlockPendingGesture = FALSE
    /\ unlockAttempts = <<>>
    /\ unlockResult = "none"
    /\ ensuring = NoEnsuring

\* no call has been made: the arguments wait for it
PickingOf(picker, pool, noteCount, intervalStep, seed) ==
    [picker |-> picker, pool |-> pool, noteCount |-> noteCount,
     intervalStep |-> intervalStep, seed |-> seed, called |-> FALSE, thrown |-> FALSE,
     returned |-> <<>>]

NoPicking == PickingOf("none", <<>>, 0, null, 0)

\* the pointers that touch the full keyboard at one time
MaxPointers == 3

Pointers == 1..MaxPointers

NoTap == [played |-> FALSE, shift |-> 0, held |-> 0]

OctaveIdle ==
    /\ keyboardMode = "compact"
    /\ touchOctaveUpActive = FALSE
    /\ touchOctaveDownActive = FALSE
    /\ touchOctaveShift = 0
    /\ octaveExitHoldTimer = FALSE
    /\ fullKeyboardPointerTargets = [pointerId \in Pointers |-> "none"]
    /\ pointerAt = [pointerId \in Pointers |-> "none"]
    /\ tap = NoTap

AfterPickIdle ==
    /\ OctaveIdle

AfterUnlockIdle ==
    /\ picking = NoPicking
    /\ AfterPickIdle

AfterOverlapIdle ==
    /\ UnlockIdle
    /\ AfterUnlockIdle

AfterHeldIdle ==
    /\ manifestLoads = <<>>
    /\ AfterOverlapIdle

AfterNavIdle ==
    /\ HeldIdle
    /\ AfterHeldIdle

LaterIdle ==
    /\ LoaderIdle
    /\ NavIdle
    /\ AfterNavIdle

RestIdle ==
    /\ tuning = NoTuning
    /\ LaterIdle

\* the variables of the other specifications, at rest
OthersIdle ==
    /\ sampling = NoSampling
    /\ VoicesIdle
    /\ QuizIdle
    /\ judged = NoJudging
    /\ RestIdle

-----------------------------------------------------------------------------
(* generateSession *)

\* variant: the temperament is not validated
validateInputAnyTemperament(moduleId, gender, key, temperament, instrument) ==
    IF moduleId \notin DOMAIN MODULE_MAP THEN "Unknown module"
    ELSE IF gender \notin DOMAIN GENDER_BASE_DO THEN "Unknown gender"
    ELSE IF key \notin DOMAIN KEY_OFFSETS THEN "Unknown key"
    ELSE IF ~(\E i \in 1..Len(INSTRUMENT_OPTIONS) : INSTRUMENT_OPTIONS[i].id = instrument)
         THEN "Unknown instrument"
    ELSE NoError

\* validateInput(moduleId, gender, key, temperament, instrument): the message
\* of the error it throws, NoError when it returns
validateInput(moduleId, gender, key, temperament, instrument) ==
    IF moduleId \notin DOMAIN MODULE_MAP THEN "Unknown module"
    ELSE IF gender \notin DOMAIN GENDER_BASE_DO THEN "Unknown gender"
    ELSE IF key \notin DOMAIN KEY_OFFSETS THEN "Unknown key"
    ELSE IF temperament # EQUAL_TEMPERAMENT THEN "Unknown temperament"
    ELSE IF ~(\E i \in 1..Len(INSTRUMENT_OPTIONS) : INSTRUMENT_OPTIONS[i].id = instrument)
         THEN "Unknown instrument"
    ELSE NoError

\* the values JavaScript's || treats as absent, among the instrument inputs
Falsy == {Undefined, ""}

\* options.instrument || "piano"
instrumentOf(opts) == IF opts.instrument \in Falsy THEN "piano" ELSE opts.instrument

\* createSessionId(): an opaque identifier drawn from the random source
createSessionId(r) == "local-" \o ToString(NextRandom(r))

\* arguments the specification calls generateSession with
ModuleIdInputs == DOMAIN MODULE_MAP \cup {"M5-L1"}

GenderInputs == {"male", "female", "other"}

\* the first, a middle and the last key of KEY_OPTIONS, and an unknown key
KeyInputs == {"C", "F#/Gb", "B", "H"}

TemperamentInputs == {EQUAL_TEMPERAMENT, "just_intonation"}

InstrumentInputs == {"piano", "guitar", "violin", Undefined, ""}

Init ==
    /\ options \in [moduleId : ModuleIdInputs,
                    gender : GenderInputs,
                    key : KeyInputs,
                    temperament : TemperamentInputs,
                    instrument : InstrumentInputs]
    /\ rng \in 0..MaxSeed
    /\ catalog = LoadedCatalog
    /\ calls = 1
    /\ pc = "call"
    /\ module = NoModule
    /\ effectiveLevel = Undefined
    /\ notesPool = <<>>
    /\ doFrequency = NoFrequency
    /\ questions = <<>>
    /\ session = NoSession
    /\ error = NoError
    /\ audioManifest = NoManifest
    /\ targetHz = NaN
    /\ mapping = NoMapping
    /\ mapError = NoError
    /\ resolution = NoResolution
    /\ payloading = NoPayloading
    /\ clamping = NoClamping
    /\ OthersIdle

\* generateSession, lines 635-642: validateInput throws
ValidateInputThrows ==
    /\ pc = "call"
    /\ validateInput(options.moduleId, options.gender, options.key,
                     options.temperament, instrumentOf(options)) # NoError
    /\ error' = validateInput(options.moduleId, options.gender, options.key,
                              options.temperament, instrumentOf(options))
    /\ pc' = "failed"
    /\ UNCHANGED <<options, module, effectiveLevel, notesPool, doFrequency,
                   questions, session, rng, catalog, calls>>
    /\ UNCHANGED <<mapVars, otherVars>>

\* generateSession, lines 635-649: validateInput returns, the locals are set
BeginGeneration ==
    /\ pc = "call"
    /\ validateInput(options.moduleId, options.gender, options.key,
                     options.temperament, instrumentOf(options)) = NoError
    /\ module' = MODULE_MAP[options.moduleId]
    /\ effectiveLevel' = resolveNotePoolLevel(module')
    /\ notesPool' = getNotePool(effectiveLevel')
    /\ doFrequency' = calculateDoFrequency(options.gender, options.key)
    /\ questions' = <<>>
    /\ pc' = "loop"
    /\ UNCHANGED <<options, session, error, rng, catalog, calls>>
    /\ UNCHANGED <<mapVars, otherVars>>

\* generateSession, lines 650-662: one iteration of the loop
GenerateNextQuestion ==
    /\ pc = "loop"
    /\ Len(questions) < QUESTION_COUNT
    /\ LET generated == generateQuestion(module, Len(questions) + 1, notesPool,
                                         doFrequency, options.temperament, rng)
       IN  IF generated.thrown
           THEN /\ pc' = "failed"
                /\ error' = "generateQuestion failed"
                /\ rng' = generated.rng
                /\ notesPool' = generated.pool
                /\ UNCHANGED questions
           ELSE /\ questions' = Append(questions, generated.question)
                /\ rng' = generated.rng
                /\ notesPool' = generated.pool
                /\ UNCHANGED <<pc, error>>
    /\ UNCHANGED <<options, module, effectiveLevel, doFrequency, session, catalog, calls>>
    /\ UNCHANGED <<mapVars, otherVars>>

\* generateSession, lines 664-680: the session is returned
ReturnSession ==
    /\ pc = "loop"
    /\ Len(questions) = QUESTION_COUNT
    /\ session' = [sessionId |-> createSessionId(rng),
                   settings |-> [moduleId |-> options.moduleId,
                                 level |-> module.level,
                                 effectiveNotePoolLevel |-> effectiveLevel,
                                 questionType |-> module.questionType,
                                 gender |-> options.gender,
                                 key |-> options.key,
                                 temperament |-> options.temperament,
                                 instrument |-> instrumentOf(options),
                                 questionCount |-> QUESTION_COUNT,
                                 doFrequency |-> roundTo4(doFrequency)],
                   questions |-> questions]
    /\ rng' = NextRandom(rng)
    /\ pc' = "done"
    /\ UNCHANGED <<options, module, effectiveLevel, notesPool, doFrequency, questions, error,
                   catalog, calls>>
    /\ UNCHANGED <<mapVars, otherVars>>

Next ==
    \/ ValidateInputThrows
    \/ BeginGeneration
    \/ GenerateNextQuestion
    \/ ReturnSession

Spec == Init /\ [][Next]_vars

-----------------------------------------------------------------------------
(* generateSession called several times *)

\* at most MaxCalls calls are made
MaxCalls == 2

\* requests of the repeated calls: a module of each question type, one of
\* them with a spacing constraint, and an unknown module
CallInputs ==
    [moduleId : {"M2-L1", "M3-L5", "M4-L1", "MI-L2", "MS-L4", "M5-L1"},
     gender : {"male"},
     key : {"C"},
     temperament : {EQUAL_TEMPERAMENT},
     instrument : {"piano"}]

InitCalls ==
    /\ options \in CallInputs
    /\ rng \in 0..MaxSeed
    /\ catalog = LoadedCatalog
    /\ calls = 1
    /\ pc = "call"
    /\ module = NoModule
    /\ effectiveLevel = Undefined
    /\ notesPool = <<>>
    /\ doFrequency = NoFrequency
    /\ questions = <<>>
    /\ session = NoSession
    /\ error = NoError
    /\ audioManifest = NoManifest
    /\ targetHz = NaN
    /\ mapping = NoMapping
    /\ mapError = NoError
    /\ resolution = NoResolution
    /\ payloading = NoPayloading
    /\ clamping = NoClamping
    /\ OthersIdle

\* the next call of generateSession, after the last one has returned or
\* thrown: its locals are new, the random source and the catalogs are those
\* the last call left
GenerateSessionAgain ==
    /\ pc \in {"done", "failed"}
    /\ calls < MaxCalls
    /\ options' \in CallInputs
    /\ calls' = calls + 1
    /\ pc' = "call"
    /\ module' = NoModule
    /\ effectiveLevel' = Undefined
    /\ notesPool' = <<>>
    /\ doFrequency' = NoFrequency
    /\ questions' = <<>>
    /\ session' = NoSession
    /\ error' = NoError
    /\ UNCHANGED <<rng, catalog>>
    /\ UNCHANGED <<mapVars, otherVars>>

NextCalls ==
    \/ ValidateInputThrows
    \/ BeginGeneration
    \/ GenerateNextQuestion
    \/ ReturnSession
    \/ GenerateSessionAgain

SpecCalls == InitCalls /\ [][NextCalls]_vars

-----------------------------------------------------------------------------
(* sampleWithoutReplacement called on lists and counts *)

\* the lists sampled: the first notes of the taxonomy, none to MaxSampleLen
SampleListInputs == { SubSeq(CHROMA_NOTES, 1, n) : n \in 0..MaxSampleLen }

\* the counts asked for: none to one more than the longest list holds
SampleCountInputs == 0..(MaxSampleLen + 1)

\* generateSession and the mapper at rest
GeneratorIdle ==
    /\ options = [moduleId |-> Undefined, gender |-> Undefined, key |-> Undefined,
                  temperament |-> Undefined, instrument |-> Undefined]
    /\ catalog = LoadedCatalog
    /\ calls = 0
    /\ pc = "idle"
    /\ module = NoModule
    /\ effectiveLevel = Undefined
    /\ notesPool = <<>>
    /\ doFrequency = NoFrequency
    /\ questions = <<>>
    /\ session = NoSession
    /\ error = NoError

MapperIdle ==
    /\ audioManifest = NoManifest
    /\ targetHz = NaN
    /\ mapping = NoMapping
    /\ mapError = NoError
    /\ resolution = NoResolution
    /\ payloading = NoPayloading
    /\ clamping = NoClamping

InitSample ==
    /\ sampling \in { SamplingOf(values, count) :
                        values \in SampleListInputs, count \in SampleCountInputs }
    /\ rng \in 0..MaxSeed
    /\ GeneratorIdle
    /\ MapperIdle
    /\ VoicesIdle
    /\ QuizIdle
    /\ judged = NoJudging
    /\ RestIdle

\* the call sampleWithoutReplacement(values, count)
SampleWithoutReplacement ==
    /\ ~sampling.called
    /\ LET sampled == sampleWithoutReplacement(sampling.values, sampling.count, rng)
       IN  /\ sampling' = [values |-> sampling.values,
                           count |-> sampling.count,
                           called |-> TRUE,
                           thrown |-> sampled.thrown,
                           returned |-> sampled.values,
                           argument |-> sampled.argument]
           /\ rng' = sampled.rng
    /\ UNCHANGED <<options, pc, module, effectiveLevel, notesPool, doFrequency, questions,
                   session, error, catalog, calls>>
    /\ UNCHANGED <<mapVars, voiceVars, quizVars, judgeVars, restVars>>

NextSample == SampleWithoutReplacement

SpecSample == InitSample /\ [][NextSample]_vars

-----------------------------------------------------------------------------
(* Playback voices (web/assets/app.js) *)

\* at most MaxSources buffer sources are created
MaxSources == 7

MAX_POLYPHONY == 5

\* variant: the cap is tested with > instead of >=
scheduleRawSampleOneMore(voices, hasBuffer, source) ==
    IF ~hasBuffer
    THEN [thrown |-> TRUE, voices |-> voices, started |-> FALSE]
    ELSE IF Len(voices) > MAX_POLYPHONY
    THEN [thrown |-> FALSE, voices |-> voices, started |-> FALSE]
    ELSE [thrown |-> FALSE, voices |-> Append(voices, source), started |-> TRUE]

\* scheduleRawSample(context, sampleId, startAt) for the new source it would
\* create; hasBuffer tells whether the decoded sample is in the cache
scheduleRawSample(voices, hasBuffer, source) ==
    IF ~hasBuffer
    THEN [thrown |-> TRUE, voices |-> voices, started |-> FALSE]
    ELSE IF Len(voices) >= MAX_POLYPHONY
    THEN [thrown |-> FALSE, voices |-> voices, started |-> FALSE]
    ELSE [thrown |-> FALSE, voices |-> Append(voices, source), started |-> TRUE]

RECURSIVE scheduleNotes(_, _, _, _)
\* the scheduling loop of playNotes for the noteCount notes that are left;
\* ensureSampleBuffer has put every sample they need in the cache
scheduleNotes(voices, created, noteCount, event) ==
    IF noteCount = 0
    THEN [voices |-> voices, created |-> created, event |-> event]
    ELSE LET scheduled == scheduleRawSample(voices, TRUE, created + 1)
         IN  IF scheduled.started
             THEN scheduleNotes(scheduled.voices, created + 1, noteCount - 1,
                                [event EXCEPT !.started = @ + 1])
             ELSE scheduleNotes(scheduled.voices, created, noteCount - 1,
                                [event EXCEPT !.dropped = @ + 1])

\* the numbers of notes a question has
NoteCountInputs == 1..4

InitVoices ==
    /\ VoicesIdle
    /\ QuizIdle
    /\ judged = NoJudging
    /\ RestIdle
    /\ sampling = NoSampling
    /\ rng = 0
    /\ GeneratorIdle
    /\ MapperIdle

\* playNotes without its look at state.isPlaying
PlayNotesBeginUnguarded ==
    \E noteCount \in NoteCountInputs :
        /\ isPlaying' = TRUE
        /\ playback' = [pc |-> "loading", noteCount |-> noteCount]
        /\ UNCHANGED <<activeVoices, sourceCount, voiceEvent>>
        /\ UNCHANGED <<genVars, mapVars, sampleVars, quizVars, judgeVars, restVars>>

\* playNotes(notes), lines 1118-1125, called by playCurrentQuestion for the
\* Repeat button or for a question just rendered: while another playNotes
\* is running it returns at once, having started and dropped nothing
PlayNotesBegin ==
    \E noteCount \in NoteCountInputs :
        /\ IF isPlaying
           THEN /\ voiceEvent' = NoVoiceEvent
                /\ UNCHANGED <<isPlaying, playback>>
           ELSE /\ isPlaying' = TRUE
                /\ playback' = [pc |-> "loading", noteCount |-> noteCount]
                /\ UNCHANGED voiceEvent
        /\ UNCHANGED <<activeVoices, sourceCount>>
        /\ UNCHANGED <<genVars, mapVars, sampleVars, quizVars, judgeVars, restVars>>

\* playNotes, lines 1126-1143: the samples are loaded, the notes are scheduled
PlayNotesSchedule ==
    /\ playback.pc = "loading"
    /\ sourceCount + playback.noteCount <= MaxSources
    /\ LET scheduled == scheduleNotes(activeVoices, sourceCount, playback.noteCount,
                                      NoVoiceEvent)
       IN  /\ activeVoices' = scheduled.voices
           /\ sourceCount' = scheduled.created
           /\ voiceEvent' = scheduled.event
    /\ playback' = [playback EXCEPT !.pc = "sleeping"]
    /\ UNCHANGED isPlaying
    /\ UNCHANGED <<genVars, mapVars, sampleVars, quizVars, judgeVars, restVars>>

\* playNotes, lines 1144-1151: the sleep is over, or loading has thrown
PlayNotesEnd ==
    /\ playback.pc \in {"loading", "sleeping"}
    /\ isPlaying' = FALSE
    /\ playback' = NoPlayback
    /\ UNCHANGED <<activeVoices, sourceCount, voiceEvent>>
    /\ UNCHANGED <<genVars, mapVars, sampleVars, quizVars, judgeVars, restVars>>

\* playKeyboardDegree, lines 1233-1252: one note, scheduled once its sample
\* is loaded
PlayKeyboardDegree ==
    /\ sourceCount < MaxSources
    /\ LET scheduled == scheduleRawSample(activeVoices, TRUE, sourceCount + 1)
       IN  /\ activeVoices' = scheduled.voices
           /\ sourceCount' = IF scheduled.started THEN sourceCount + 1 ELSE sourceCount
           /\ voiceEvent' = IF scheduled.started
                            THEN [started |-> 1, dropped |-> 0]
                            ELSE [started |-> 0, dropped |-> 1]
    /\ UNCHANGED <<isPlaying, playback>>
    /\ UNCHANGED <<genVars, mapVars, sampleVars, quizVars, judgeVars, restVars>>

\* source.onended, lines 1178-1180: the voice is taken off the list
VoiceEnded ==
    \E index \in 1..Len(activeVoices) :
        /\ activeVoices' = SelectSeq(activeVoices,
                                     LAMBDA voice : voice # activeVoices[index])
        /\ UNCHANGED <<sourceCount, isPlaying, playback, voiceEvent>>
        /\ UNCHANGED <<genVars, mapVars, sampleVars, quizVars, judgeVars, restVars>>

NextVoices ==
    \/ PlayNotesBegin
    \/ PlayNotesSchedule
    \/ PlayNotesEnd
    \/ PlayKeyboardDegree
    \/ VoiceEnded

SpecVoices == InitVoices /\ [][NextVoices]_vars

\* the awaits of playNotes settle: the audio context and the samples are
\* there or the await throws, and the timer of sleep fires
SpecVoicesFair == SpecVoices /\ WF_vars(PlayNotesEnd)

-----------------------------------------------------------------------------
(* The sample mapper called on manifests and target frequencies *)

\* recorded pitches of the samples the specification builds manifests from.
\* Two entries of a manifest tie for a target when they have the same pitch
\* or lie an equal number of octaves below and above it (100 and 400 for
\* 200); for these the errors computed in floating point are equal as well.
HzInputs == {100, 150, 200, 400}

\* the samples array for a list of recorded pitches; ids follow the position
samplesOf(hzs) == [i \in 1..Len(hzs) |-> [id |-> "s" \o ToString(i), hz |-> hzs[i]]]

\* recorded pitches that the targets 868 and 1389 miss by just over and just
\* under MAX_CENTS_ERROR
ToleranceHzInputs == {<<863>>, <<1381>>, <<863, 1381>>, <<1381, 200>>}

ManifestInputs ==
    {NoManifest, MalformedManifest}
    \cup { Manifest(samplesOf(hzs)) :
             hzs \in UNION { [1..n -> HzInputs] : n \in 0..MaxManifestLen } }
    \cup { Manifest(samplesOf(hzs)) : hzs \in ToleranceHzInputs }

TargetInputs ==
    { Number(v) : v \in {-5, 0, 100, 120, 150, 200, 283, 300, 400, 800,
                         863, 868, 1381, 1389} }
    \cup {NaN, Infinity}

InitMap ==
    /\ audioManifest \in ManifestInputs
    /\ targetHz = NaN
    /\ mapping = NoMapping
    /\ mapError = NoError
    /\ resolution = NoResolution
    /\ payloading = NoPayloading
    /\ clamping = NoClamping
    /\ OthersIdle
    /\ options = [moduleId |-> Undefined, gender |-> Undefined, key |-> Undefined,
                  temperament |-> Undefined, instrument |-> Undefined]
    /\ rng = 0
    /\ catalog = LoadedCatalog
    /\ calls = 0
    /\ pc = "idle"
    /\ module = NoModule
    /\ effectiveLevel = Undefined
    /\ notesPool = <<>>
    /\ doFrequency = NoFrequency
    /\ questions = <<>>
    /\ session = NoSession
    /\ error = NoError

\* a call of mapTargetHzToSample(target)
MapTargetHzToSample ==
    \E target \in TargetInputs :
        /\ targetHz' = target
        /\ mapping' = mapTargetHzToSample(target, audioManifest).mapping
        /\ mapError' = mapTargetHzToSample(target, audioManifest).thrown
        /\ resolution' = NoResolution
        /\ payloading' = NoPayloading
        /\ clamping' = NoClamping
        /\ UNCHANGED audioManifest
        /\ UNCHANGED <<genVars, otherVars>>

\* note payloads handed to playback: the frequency is a positive number, the
\* sampleId is absent, names a sample of the manifest, or names none
NoteInputs ==
    { [frequency |-> Number(v), sampleId |-> id] :
        v \in {100, 120, 200, 283, 868, 1389},
        id \in {Undefined, "s1", "s9"} }

\* a call of resolveSampleIdForNote(note); when the note names a sample of
\* the manifest no mapTargetHzToSample call is made
ResolveSampleIdForNote ==
    \E note \in NoteInputs :
        LET resolved == resolveSampleIdForNote(note, audioManifest)
        IN  /\ resolution' = [note |-> note,
                              thrown |-> resolved.thrown,
                              sampleId |-> resolved.sampleId,
                              mapped |-> resolved.mapped]
            /\ IF resolved.mapped
               THEN /\ targetHz' = note.frequency
                    /\ mapping' = mapTargetHzToSample(note.frequency, audioManifest).mapping
                    /\ mapError' = mapTargetHzToSample(note.frequency, audioManifest).thrown
               ELSE /\ targetHz' = NaN
                    /\ mapping' = NoMapping
                    /\ mapError' = NoError
            /\ payloading' = NoPayloading
            /\ clamping' = NoClamping
            /\ UNCHANGED audioManifest
            /\ UNCHANGED <<genVars, otherVars>>

\* the notes payloads are built for: a natural note, and a natural note
\* with a sharp one that has an enharmonic spelling
PayloadNoteInputs ==
    { <<NOTE_BY_TOKEN["1"]>>, <<NOTE_BY_TOKEN["5"], NOTE_BY_TOKEN["#1"]>> }

CallbackInputs ==
    {NoCallback, CallbackReturning(FALSE, Undefined, NoMidi)}
    \cup { CallbackReturning(TRUE, sampleId, midi) :
             sampleId \in {Undefined, "s1", "s9"}, midi \in {NoMidi, 60} }

\* a call of buildNotePayloads(notes, doFrequency, temperament,
\* mapTargetFrequency) for a male voice in C
BuildNotePayloads ==
    \E notes \in PayloadNoteInputs, callback \in CallbackInputs :
        /\ payloading' = [notes |-> notes,
                          callback |-> callback,
                          payloads |-> buildNotePayloadsMapped(
                                           notes, calculateDoFrequency("male", "C"),
                                           EQUAL_TEMPERAMENT, callback),
                          called |-> TRUE]
        /\ targetHz' = NaN
        /\ mapping' = NoMapping
        /\ mapError' = NoError
        /\ resolution' = NoResolution
        /\ clamping' = NoClamping
        /\ UNCHANGED audioManifest
        /\ UNCHANGED <<genVars, otherVars>>

\* the frequencies that are clamped: finite numbers below, inside, at the
\* ends of, and above the ranges of the manifests
ClampInputs == {-5, 0, 100, 120, 150, 300, 400, 800}

\* a call of clampFrequencyToSampleRange(frequency)
ClampFrequencyToSampleRange ==
    \E frequency \in ClampInputs :
        /\ clamping' = [frequency |-> frequency,
                        returned |-> clampFrequencyToSampleRange(frequency, audioManifest),
                        called |-> TRUE,
                        again |-> FALSE]
        /\ targetHz' = NaN
        /\ mapping' = NoMapping
        /\ mapError' = NoError
        /\ resolution' = NoResolution
        /\ payloading' = NoPayloading
        /\ UNCHANGED audioManifest
        /\ UNCHANGED <<genVars, otherVars>>

\* the value a call returned is clamped again
ClampAgain ==
    /\ clamping.called
    /\ ~clamping.again
    /\ clamping' = [frequency |-> clamping.returned,
                    returned |-> clampFrequencyToSampleRange(clamping.returned,
                                                            audioManifest),
                    called |-> TRUE,
                    again |-> TRUE]
    /\ UNCHANGED <<audioManifest, targetHz, mapping, mapError, resolution, payloading>>
    /\ UNCHANGED <<genVars, otherVars>>

NextMap ==
    \/ MapTargetHzToSample
    \/ ResolveSampleIdForNote
    \/ BuildNotePayloads
    \/ ClampFrequencyToSampleRange
    \/ ClampAgain

SpecMap == InitMap /\ [][NextMap]_vars

-----------------------------------------------------------------------------
(* Properties of generateSession, checked under Spec *)

\* the ids of a catalog given as a list of {id, ...} entries
IdsOf(catalogEntries) == {catalogEntries[i].id : i \in 1..Len(catalogEntries)}

\* semitone of the note at position i (1-based) of a question
SemitoneAt(question, i) == question.notes[i].semitone

\* the request names a module, gender, key, temperament and instrument of the catalogs
ValidRequest ==
    /\ options.moduleId \in IdsOf(MODULES)
    /\ options.gender \in {"male", "female"}
    /\ options.key \in IdsOf(KEY_OPTIONS)
    /\ options.temperament \in IdsOf(TEMPERAMENT_OPTIONS)
    /\ options.instrument \in IdsOf(INSTRUMENT_OPTIONS)

\* generateSession has thrown and has produced nothing
FailedWithoutSession ==
    /\ pc \in {"call", "failed"}
    /\ session = NoSession
    /\ questions = <<>>

\* C1: every session returned by generateSession has exactly 20 questions,
\* whatever the question type of its module.
C1_TwentyQuestions ==
    pc = "done" =>
        /\ Len(session.questions) = 20
        /\ session.settings.questionCount = 20

C1_Witness ==
    /\ pc = "done"
    /\ ValidRequest
    /\ session.settings.questionType = "single_note"
    /\ Len(session.questions) = 20

\* C2 as stated: generateSession returns no session whenever the module id,
\* gender, key, temperament or the instrument it is given (an omitted
\* instrument aside) is not in its catalog.
C2_RejectsEveryNonMember ==
    ( \/ options.moduleId \notin IdsOf(MODULES)
      \/ options.gender \notin {"male", "female"}
      \/ options.key \notin IdsOf(KEY_OPTIONS)
      \/ options.temperament \notin IdsOf(TEMPERAMENT_OPTIONS)
      \/ /\ options.instrument # Undefined
         /\ options.instrument \notin IdsOf(INSTRUMENT_OPTIONS) )
    => pc # "done" /\ session = NoSession

\* C2 amended: generateSession fails and returns nothing whenever the module
\* id, gender, key or temperament is not in its catalog, or the instrument is
\* a non-empty value that is not in the instrument catalog; just_intonation
\* is rejected. An omitted or empty instrument is replaced by piano first.
C2_RejectsNonMembers ==
    /\ ( \/ options.moduleId \notin IdsOf(MODULES)
         \/ options.gender \notin {"male", "female"}
         \/ options.key \notin IdsOf(KEY_OPTIONS)
         \/ options.temperament \notin IdsOf(TEMPERAMENT_OPTIONS)
         \/ options.temperament = "just_intonation"
         \/ /\ options.instrument \notin {Undefined, ""}
            /\ options.instrument \notin IdsOf(INSTRUMENT_OPTIONS) )
       => FailedWithoutSession
    /\ pc = "done" /\ options.instrument \in {Undefined, ""}
       => session.settings.instrument = "piano"

C2_Witness ==
    /\ pc = "failed"
    /\ error = "Unknown temperament"
    /\ options.temperament = "just_intonation"
    /\ options.moduleId \in IdsOf(MODULES)
    /\ options.instrument = "guitar"
    /\ session = NoSession

\* C3: in every compare_two question of modules M2-L5 and M2-L6 the two
\* semitones differ by exactly 2 (L5) and exactly 1 (L6).
C3_CompareSpacing ==
    pc \in {"loop", "done"} /\ options.moduleId \in {"M2-L5", "M2-L6"} =>
        \A i \in 1..Len(questions) :
            /\ Len(questions[i].notes) = 2
            /\ Abs(SemitoneAt(questions[i], 1) - SemitoneAt(questions[i], 2))
                 = (IF options.moduleId = "M2-L5" THEN 2 ELSE 1)

C3_Witness ==
    /\ pc = "done"
    /\ options.moduleId = "M2-L6"
    /\ \E i \in 1..Len(session.questions) :
          SemitoneAt(session.questions[i], 1) - SemitoneAt(session.questions[i], 2) = 1
    /\ \E i \in 1..Len(session.questions) :
          SemitoneAt(session.questions[i], 2) - SemitoneAt(session.questions[i], 1) = 1

\* the semitones of a question's notes, from low to high
AscendingSemitones(question) ==
    SortAscending({SemitoneAt(question, i) : i \in 1..Len(question.notes)})

\* C4: in every sort question of modules M3-L5, M3-L6, M4-L5 and M4-L6 the
\* notes, ordered from low to high, are N distinct notes of one octave
\* (semitones 0..11, no wrap-around) whose adjacent members differ by
\* exactly 2 semitones at L5 and exactly 1 semitone at L6.
C4_SortProgression ==
    pc \in {"loop", "done"}
    /\ options.moduleId \in {"M3-L5", "M3-L6", "M4-L5", "M4-L6"} =>
        \A i \in 1..Len(questions) :
            LET ascending == AscendingSemitones(questions[i])
                count == IF module.questionType = "sort_three" THEN 3 ELSE 4
                step == IF module.level = "L5" THEN 2 ELSE 1
            IN  /\ Len(questions[i].notes) = count
                /\ Len(ascending) = count
                /\ \A k \in 1..count : ascending[k] \in 0..11
                /\ \A k \in 1..(count - 1) : ascending[k + 1] - ascending[k] = step

C4_Witness ==
    /\ pc = "done"
    /\ options.moduleId = "M4-L5"
    /\ \E i \in 1..Len(session.questions) :
          AscendingSemitones(session.questions[i]) = <<5, 7, 9, 11>>

\* the orders in which the positions 1..n can be listed
PositionOrders(n) ==
    { order \in [1..n -> 1..n] : \A a, b \in 1..n : order[a] = order[b] => a = b }

OrdersOfThree == PositionOrders(3)

OrdersOfFour == PositionOrders(4)

\* the hyphen-joined string of an order of positions
OrderString(order) == join([k \in 1..Len(order) |-> ToString(order[k])], "-")

\* C5: the correctAnswer of every sort question is the hyphen-joined string
\* of a permutation of 1..N, and the presented notes read in that order have
\* non-decreasing semitones.
C5_SortAnswer ==
    pc \in {"loop", "done"} /\ module.questionType \in {"sort_three", "sort_four"} =>
        \A i \in 1..Len(questions) :
            LET count == IF module.questionType = "sort_three" THEN 3 ELSE 4
            IN  /\ Len(questions[i].notes) = count
                /\ \E order \in (IF count = 3 THEN OrdersOfThree ELSE OrdersOfFour) :
                      /\ OrderString(order) = questions[i].correctAnswer
                      /\ \A k \in 1..(count - 1) :
                            SemitoneAt(questions[i], order[k])
                              <= SemitoneAt(questions[i], order[k + 1])

C5_Witness ==
    /\ pc = "done"
    /\ module.questionType = "sort_four"
    /\ \E i \in 1..Len(session.questions) : session.questions[i].correctAnswer = "4-1-2-3"
    /\ \E i \in 1..Len(session.questions) : session.questions[i].correctAnswer # "1-2-3-4"

\* C6: in every compare_two question correctAnswer is first_higher exactly
\* when the first note's semitone is the greater one, second_higher exactly
\* when the second note's is, and the two semitones are never equal.
C6_CompareAnswer ==
    pc \in {"loop", "done"} /\ module.questionType = "compare_two" =>
        \A i \in 1..Len(questions) :
            /\ SemitoneAt(questions[i], 1) # SemitoneAt(questions[i], 2)
            /\ questions[i].correctAnswer = "first_higher"
                 <=> SemitoneAt(questions[i], 1) > SemitoneAt(questions[i], 2)
            /\ questions[i].correctAnswer = "second_higher"
                 <=> SemitoneAt(questions[i], 2) > SemitoneAt(questions[i], 1)

C6_Witness ==
    /\ pc = "done"
    /\ module.questionType = "compare_two"
    /\ \E i \in 1..Len(session.questions) : session.questions[i].correctAnswer = "first_higher"
    /\ \E i \in 1..Len(session.questions) : session.questions[i].correctAnswer = "second_higher"

\* the tokens of a list of notes
TokensOf(notes) == {notes[i].token : i \in 1..Len(notes)}

\* C7: module M4-L1 draws from the note pool of level L2 and its session
\* settings report level L1 with effectiveNotePoolLevel L2; for every other
\* module the pool and effectiveNotePoolLevel are those of the module's level.
C7_EffectivePoolLevel ==
    /\ pc \in {"loop", "done"} =>
          IF options.moduleId = "M4-L1"
          THEN /\ effectiveLevel = "L2"
               /\ TokensOf(notesPool) = {"1", "2", "3", "5", "6"}
          ELSE /\ effectiveLevel = MODULE_MAP[options.moduleId].level
               /\ TokensOf(notesPool)
                    = {DIFFICULTY_LEVELS[MODULE_MAP[options.moduleId].level].tokens[k] :
                         k \in 1..Len(DIFFICULTY_LEVELS[MODULE_MAP[options.moduleId].level].tokens)}
    /\ pc = "done" =>
          /\ session.settings.level = MODULE_MAP[options.moduleId].level
          /\ session.settings.effectiveNotePoolLevel
               = (IF options.moduleId = "M4-L1" THEN "L2"
                  ELSE MODULE_MAP[options.moduleId].level)

C7_Witness ==
    /\ pc = "done"
    /\ options.moduleId = "M4-L1"
    /\ session.settings.level = "L1"
    /\ session.settings.effectiveNotePoolLevel = "L2"
    /\ \E i \in 1..Len(session.questions) :
          TokensOf(session.questions[i].notes) \cap {"2", "6"} # {}

\* C8: every note of every generated question has a token of the token list
\* of the session's effectiveNotePoolLevel, which is the level the session
\* settings report; M2-L1 only yields the tokens 1, 3 and 5.
C8_TokensFromPool ==
    /\ pc \in {"loop", "done"} =>
          \A i \in 1..Len(questions) :
              /\ TokensOf(questions[i].notes) \subseteq
                   {DIFFICULTY_LEVELS[effectiveLevel].tokens[k] :
                      k \in 1..Len(DIFFICULTY_LEVELS[effectiveLevel].tokens)}
              /\ options.moduleId = "M2-L1" =>
                   TokensOf(questions[i].notes) \subseteq {"1", "3", "5"}
    /\ pc = "done" =>
          /\ session.settings.effectiveNotePoolLevel = effectiveLevel
          /\ session.questions = questions

C8_Witness ==
    /\ pc = "done"
    /\ options.moduleId = "MS-L4"
    /\ \E i \in 1..Len(session.questions) :
          TokensOf(session.questions[i].notes) \cap {"#1", "#2", "#4", "#5", "#6"} # {}

\* C9: for every module of the catalog and every valid gender, key and
\* instrument, generateSession never throws: validation passes, no iteration
\* of the question loop throws (neither for want of an exact-spacing note set
\* nor for want of notes in the pool), the loop ends after QUESTION_COUNT
\* questions and the session is returned.
C9_GenerationIsTotal ==
    ValidRequest =>
        /\ pc \in {"call", "loop", "done"}
        /\ error = NoError
        /\ pc = "call" =>
              validateInput(options.moduleId, options.gender, options.key,
                            options.temperament, instrumentOf(options)) = NoError
        /\ pc = "loop" => Len(questions) <= QUESTION_COUNT
        /\ pc = "done" => Len(session.questions) = QUESTION_COUNT

C9_Witness ==
    /\ pc = "done"
    /\ ValidRequest
    /\ options.moduleId = "M3-L1"
    /\ Len(session.questions) = QUESTION_COUNT

-----------------------------------------------------------------------------
(* Properties of the sample mapper, checked under SpecMap *)

\* the last call had a valid target frequency and a non-empty manifest
MapperPrecondition ==
    /\ targetHz.finite
    /\ targetHz.value > 0
    /\ audioManifest.isObject
    /\ audioManifest.samplesIsArray
    /\ Len(audioManifest.samples) > 0

\* entry i of the manifest is at least as close to the target, in absolute
\* cents, as entry j: max(t,hi)/min(t,hi) <= max(t,hj)/min(t,hj)
AsCloseAs(i, j) ==
    LET t == targetHz.value
        hi == audioManifest.samples[i].hz
        hj == audioManifest.samples[j].hz
    IN  Max(t, hi) * Min(t, hj) <= Max(t, hj) * Min(t, hi)

\* C10: for a valid target frequency and a non-empty manifest the mapper
\* returns the first entry, in manifest order, among those of minimal
\* absolute cents error.
C10_NearestFirstOnTies ==
    MapperPrecondition =>
        /\ mapError = NoError
        /\ \E i \in 1..Len(audioManifest.samples) :
              /\ mapping.sampleId = audioManifest.samples[i].id
              /\ mapping.sampleHz = audioManifest.samples[i].hz
              /\ \A j \in 1..Len(audioManifest.samples) : AsCloseAs(i, j)
              /\ \A j \in 1..(i - 1) : ~AsCloseAs(j, i)

C10_Witness ==
    /\ MapperPrecondition
    /\ mapError = NoError
    /\ Len(audioManifest.samples) = 3
    /\ targetHz.value = 200
    /\ audioManifest.samples[1].hz = 400
    /\ audioManifest.samples[2].hz = 100
    /\ audioManifest.samples[3].hz = 400
    /\ mapping.sampleId = "s1"
    /\ mapping.sampleHz = 400

\* some entry of the manifest has the pitch of the last target
TargetIsAnEntry ==
    \E i \in 1..Len(audioManifest.samples) : audioManifest.samples[i].hz = targetHz.value

\* C11 as stated: for every entry X of the manifest, mapping the target
\* frequency X.hz returns sampleId equal to X.id and centsError equal to 0.
C11_RoundTripEveryEntry ==
    MapperPrecondition =>
        \A i \in 1..Len(audioManifest.samples) :
            audioManifest.samples[i].hz = targetHz.value =>
                /\ mapError = NoError
                /\ mapping.sampleId = audioManifest.samples[i].id
                /\ mapping.centsError.num = mapping.centsError.den

\* C11 amended: for every entry X of the manifest, mapping the target
\* frequency X.hz returns centsError 0, sampleHz equal to X.hz and the id of
\* the first entry whose hz equals X.hz; that id is X.id when no earlier
\* entry has the same hz.
C11_RoundTripFirstOfEqualPitch ==
    MapperPrecondition =>
        \A i \in 1..Len(audioManifest.samples) :
            audioManifest.samples[i].hz = targetHz.value =>
                /\ mapError = NoError
                /\ mapping.centsError.num = mapping.centsError.den
                /\ mapping.sampleHz = audioManifest.samples[i].hz
                /\ \E k \in 1..i :
                      /\ audioManifest.samples[k].hz = targetHz.value
                      /\ \A j \in 1..(k - 1) : audioManifest.samples[j].hz # targetHz.value
                      /\ mapping.sampleId = audioManifest.samples[k].id
                /\ (\A j \in 1..(i - 1) : audioManifest.samples[j].hz # targetHz.value)
                      => mapping.sampleId = audioManifest.samples[i].id

C11_Witness ==
    /\ MapperPrecondition
    /\ TargetIsAnEntry
    /\ Len(audioManifest.samples) = 3
    /\ audioManifest.samples[1].hz = 400
    /\ audioManifest.samples[2].hz = 150
    /\ audioManifest.samples[3].hz = 200
    /\ targetHz.value = 200
    /\ mapError = NoError
    /\ mapping.sampleId = "s3"
    /\ mapping.centsError = [num |-> 200, den |-> 200]

\* C12: every call of the mapper with a target frequency that is not finite
\* or not greater than zero (0, -5, NaN, Infinity) throws the invalid-target
\* error and returns no mapping, whatever the manifest is: absent, malformed,
\* empty or filled.
C12_InvalidTargetFails ==
    [][ MapTargetHzToSample /\ (~targetHz'.finite \/ targetHz'.value <= 0)
          => mapError' = "Invalid target frequency" /\ mapping' = NoMapping ]_vars

C12_Witness ==
    /\ targetHz = Number(0)
    /\ audioManifest.isObject
    /\ audioManifest.samplesIsArray
    /\ Len(audioManifest.samples) = 2
    /\ mapError = "Invalid target frequency"
    /\ mapping = NoMapping

\* the pitches t and s are at most 10 cents apart. 868 / 863 (10.0014 cents)
\* is the least ratio of whole numbers below 2244 that exceeds 10 cents.
WithinTenCents(t, s) == Max(t, s) * 863 < 868 * Min(t, s)

\* resolveSampleIdForNote was last called with a note that had to be mapped,
\* and the manifest had samples to map it to
ResolvedByMapping ==
    /\ resolution.mapped
    /\ audioManifest.isObject
    /\ audioManifest.samplesIsArray
    /\ Len(audioManifest.samples) > 0

-----------------------------------------------------------------------------
(* More properties of generateSession *)

\* the scale-degree distances of all pairs of notes of a pool
DegreeDistancesOf(pool) ==
    { Abs(pool[i].degree - pool[j].degree) : i, j \in 1..Len(pool) } \ {0}

\* C15: in every interval_scale question correctAnswer is the absolute
\* difference of the two notes' scale-degree numbers, choices lists in
\* ascending order and without repetition every degree distance that a pair
\* of notes of the pool has, and correctAnswer is one of the choices.
C15_IntervalAnswer ==
    pc \in {"loop", "done"} /\ module.questionType = "interval_scale" =>
        \A i \in 1..Len(questions) :
            LET question == questions[i]
                distance == Abs(question.notes[1].degree - question.notes[2].degree)
            IN  /\ Len(question.notes) = 2
                /\ question.correctAnswer = ToString(distance)
                /\ {question.choices[k] : k \in 1..Len(question.choices)}
                     = {ToString(d) : d \in DegreeDistancesOf(notesPool)}
                /\ Len(question.choices) = Cardinality(DegreeDistancesOf(notesPool))
                /\ \A k \in 1..(Len(question.choices) - 1) :
                      \E d, e \in DegreeDistancesOf(notesPool) :
                          /\ question.choices[k] = ToString(d)
                          /\ question.choices[k + 1] = ToString(e)
                          /\ d < e
                /\ \E k \in 1..Len(question.choices) :
                      question.choices[k] = question.correctAnswer

\* a question of MI-L2 whose notes are 4 semitones and 2 scale degrees apart
C15_Witness ==
    /\ pc = "done"
    /\ options.moduleId = "MI-L2"
    /\ \E i \in 1..Len(session.questions) :
          /\ Abs(SemitoneAt(session.questions[i], 1) - SemitoneAt(session.questions[i], 2)) = 4
          /\ session.questions[i].correctAnswer = "2"
          /\ session.questions[i].choices = <<"1", "2", "3", "4", "5">>

\* C16: the ids of the 20 questions of a returned session are pairwise
\* distinct.
C16_DistinctQuestionIds ==
    pc = "done" =>
        /\ Len(session.questions) = 20
        /\ \A i, j \in 1..Len(session.questions) :
              i # j => session.questions[i].id # session.questions[j].id

C16_Witness ==
    /\ pc = "done"
    /\ options.moduleId = "M2-L1"
    /\ session.questions[1].id = "M2-L1-Q1"
    /\ session.questions[20].id = "M2-L1-Q20"
    /\ Cardinality({session.questions[i].id : i \in 1..Len(session.questions)}) = 20

-----------------------------------------------------------------------------
(* Properties of repeated generateSession calls, checked under SpecCalls *)

-----------------------------------------------------------------------------
(* Properties of sampleWithoutReplacement, checked under SpecSample *)

\* C20: sampling more elements than the list holds throws and returns
\* nothing, never a shorter list; when count does not exceed the size of the
\* list the call returns exactly count elements of the list, taken from
\* pairwise distinct positions of it, and leaves the list as it was.
C20_SampleOrFail ==
    sampling.called =>
        IF sampling.count > Len(sampling.values)
        THEN /\ sampling.thrown
             /\ sampling.returned = <<>>
        ELSE /\ ~sampling.thrown
             /\ Len(sampling.returned) = sampling.count
             /\ \E positions \in [1..sampling.count -> 1..Len(sampling.values)] :
                   /\ \A a, b \in 1..sampling.count : positions[a] = positions[b] => a = b
                   /\ \A a \in 1..sampling.count :
                         sampling.returned[a] = sampling.values[positions[a]]
             /\ sampling.argument = sampling.values

\* four elements are asked of a list of three
C20_Witness ==
    /\ sampling.called
    /\ Len(sampling.values) = 3
    /\ sampling.count = 4
    /\ sampling.thrown
    /\ sampling.returned = <<>>

-----------------------------------------------------------------------------
(* Properties of the playback voices, checked under SpecVoices *)

\* C18: there are never more than 5 active voices. A note triggered while 5
\* voices are active is dropped and starts nothing; a note triggered while
\* fewer are active starts; when a voice ends, one voice less is active, so
\* that the next note starts.
C18_PolyphonyCap ==
    /\ [](Len(activeVoices) <= 5)
    /\ [][ /\ PlayKeyboardDegree /\ Len(activeVoices) = 5 =>
                /\ activeVoices' = activeVoices
                /\ sourceCount' = sourceCount
                /\ voiceEvent' = [started |-> 0, dropped |-> 1]
           /\ PlayKeyboardDegree /\ Len(activeVoices) < 5 =>
                /\ Len(activeVoices') = Len(activeVoices) + 1
                /\ voiceEvent' = [started |-> 1, dropped |-> 0]
           /\ PlayNotesSchedule =>
                /\ Len(activeVoices') = Min(5, Len(activeVoices) + playback.noteCount)
                /\ voiceEvent'.started = Len(activeVoices') - Len(activeVoices)
                /\ voiceEvent'.dropped = playback.noteCount - voiceEvent'.started
           /\ VoiceEnded => Len(activeVoices') = Len(activeVoices) - 1 ]_vars

\* five voices are active and a note has just been dropped, after a sixth
\* source had started in the place of a voice that ended
C18_Witness ==
    /\ Len(activeVoices) = 5
    /\ sourceCount = 6
    /\ activeVoices[5] = 6
    /\ voiceEvent = [started |-> 0, dropped |-> 1]

-----------------------------------------------------------------------------
(* Judging an answer (web/assets/app.js) *)

\* String(value) of a string, and of an object that is not one
String(value) == IF value.type = "string" THEN value.string ELSE "[object Object]"

\* A question as the client holds it: correctAnswer is a string or, for
\* single_note, the object { degree, accidental, accepted? }; accepted is
\* the empty list when the object has none
clientQuestion(question) ==
    LET answer == question.correctAnswer
    IN  [id |-> question.id,
         type |-> question.type,
         notes |-> question.notes,
         choices |-> question.choices,
         correctAnswer |->
             IF question.type = "single_note"
             THEN [type |-> "object",
                   degree |-> answer.degree,
                   accidental |-> answer.accidental,
                   hasAccepted |-> "accepted" \in DOMAIN answer,
                   accepted |-> IF "accepted" \in DOMAIN answer
                                THEN answer.accepted ELSE <<>>]
             ELSE JsString(answer)]

\* normalizeAnswer(answer); answer.accidental || "natural" replaces an
\* accidental that is missing or empty
normalizeAnswer(answer) ==
    IF answer.type = "string"
    THEN [degree |-> answer.string, accidental |-> "natural"]
    ELSE [degree |-> answer.degree,
          accidental |-> IF answer.accidental \in {Undefined, ""}
                         THEN "natural" ELSE answer.accidental]

\* variant: the alternate spellings are not looked at
isCorrectPrimaryOnly(correctAnswer, userAnswer) ==
    IF correctAnswer.type = "string"
    THEN String(userAnswer) = correctAnswer.string
    ELSE LET normalizedUser == normalizeAnswer(userAnswer)
         IN  /\ correctAnswer.degree = normalizedUser.degree
             /\ correctAnswer.accidental = normalizedUser.accidental

\* isCorrect(correctAnswer, userAnswer)
isCorrect(correctAnswer, userAnswer) ==
    IF correctAnswer.type = "string"
    THEN String(userAnswer) = correctAnswer.string
    ELSE LET normalizedUser == normalizeAnswer(userAnswer)
             validAnswers ==
                 <<[degree |-> correctAnswer.degree,
                    accidental |-> correctAnswer.accidental]>>
                 \o (IF correctAnswer.hasAccepted
                     THEN [k \in 1..Len(correctAnswer.accepted) |->
                              [degree |-> correctAnswer.accepted[k].degree,
                               accidental |-> correctAnswer.accepted[k].accidental]]
                     ELSE <<>>)
         IN  \E k \in 1..Len(validAnswers) :
                 /\ validAnswers[k].degree = normalizedUser.degree
                 /\ validAnswers[k].accidental = normalizedUser.accidental

RECURSIVE questionsLoop(_, _, _, _, _, _, _)
\* the loop of generateSession run until count questions are built, on the
\* random source r; the questions as the client receives them
questionsLoop(m, pool, doFreq, temperament, r, built, count) ==
    IF Len(built) >= count
    THEN built
    ELSE LET generated == generateQuestion(m, Len(built) + 1, pool, doFreq, temperament, r)
         IN  IF generated.thrown
             THEN built
             ELSE questionsLoop(m, generated.pool, doFreq, temperament, generated.rng,
                                Append(built, clientQuestion(generated.question)), count)

\* getNotePool(level) of the service that answers POST /session, whose
\* catalogs are the loaded ones
serviceNotePool(level) ==
    [i \in 1..Len(LoadedCatalog.levels[level].tokens) |->
        NOTE_BY_TOKEN[LoadedCatalog.levels[level].tokens[i]]]

\* the questions of a session of module moduleId for a male voice in C, equal
\* temperament
sessionQuestions(moduleId, r, count) ==
    LET m == MODULE_MAP[moduleId]
    IN  questionsLoop(m, serviceNotePool(resolveNotePoolLevel(m)),
                      calculateDoFrequency("male", "C"), "equal_temperament",
                      r, <<>>, count)

\* the answers the buttons of renderSingleNoteAnswer can submit: a degree
\* button sends its degree with state.selectedAccidental, which is one of the
\* accidentals offered, or "natural" when the question asks for none
SingleNoteAnswers(question) ==
    { JsObject(question.choices.degrees[d], question.choices.accidentals[a]) :
        d \in DOMAIN question.choices.degrees,
        a \in DOMAIN question.choices.accidentals }

SingleNoteModules == {"MS-L1", "MS-L2", "MS-L3", "MS-L4"}

\* the single_note questions of whole sessions
SingleNoteQuestionInputs ==
    UNION { { sessionQuestions(moduleId, r, QUESTION_COUNT)[k] : k \in 1..QUESTION_COUNT } :
              moduleId \in SingleNoteModules, r \in 0..MaxSeed }

InitJudge ==
    /\ GeneratorIdle
    /\ judged \in UNION { { JudgingOf(question, answer) :
                                answer \in SingleNoteAnswers(question) } :
                            question \in SingleNoteQuestionInputs }
    /\ rng = 0
    /\ MapperIdle
    /\ sampling = NoSampling
    /\ VoicesIdle
    /\ QuizIdle
    /\ RestIdle

\* the call isCorrect(question.correctAnswer, answer)
IsCorrect ==
    /\ ~judged.called
    /\ judged' = [judged EXCEPT !.called = TRUE,
                                !.correct = isCorrect(judged.question.correctAnswer,
                                                      judged.answer)]
    /\ UNCHANGED <<genVars, mapVars, sampleVars, voiceVars, quizVars, restVars>>

NextJudge == IsCorrect

SpecJudge == InitJudge /\ [][NextJudge]_vars

\* C14: a single_note answer is judged correct exactly when its (degree,
\* accidental) pair is the primary spelling of the note or, for a note with
\* an enharmonic spelling, its alternate spelling; a note without one accepts
\* the primary pair only
C14_SingleNoteJudgement ==
    judged.called =>
        LET note == judged.question.notes[1]
            pair == <<judged.answer.degree, judged.answer.accidental>>
            primary == <<ToString(note.degree), note.accidental>>
        IN  judged.correct <=>
                \/ pair = primary
                \/ /\ "enharmonic" \in DOMAIN note
                   /\ pair = <<ToString(note.enharmonic.degree), note.enharmonic.accidental>>

\* an answer with the alternate spelling of a note has been judged correct
C14_Witness ==
    /\ judged.called
    /\ judged.correct
    /\ "enharmonic" \in DOMAIN judged.question.notes[1]
    /\ judged.answer.accidental = judged.question.notes[1].enharmonic.accidental
    /\ judged.answer.degree = ToString(judged.question.notes[1].enharmonic.degree)

-----------------------------------------------------------------------------
(* The quiz of the web client (web/assets/app.js) *)

\* the number of questions of the sessions the client is given
MaxQuizQuestions == 2

QuizModules == {"M2-L1", "M3-L1", "MI-L1", "MS-L1"}

\* the sessions POST /session answers with, one for each module: state.session
SessionInputs ==
    { [present |-> TRUE,
       moduleId |-> moduleId,
       questions |-> sessionQuestions(moduleId, 0, MaxQuizQuestions)] :
        moduleId \in QuizModules }

\* currentQuestion(): null is NoQuestion
currentQuestion(sessionValue, index) ==
    IF ~sessionValue.present
    THEN NoQuestion
    ELSE IF index + 1 \in DOMAIN sessionValue.questions
    THEN sessionValue.questions[index + 1]
    ELSE NoQuestion

isSortQuestion(question) == question.type \in {"sort_three", "sort_four"}

\* the answers the enabled buttons of the answer area submit when clicked
SubmittableAnswers(question, accidental, sequence) ==
    IF question.type = "single_note"
    THEN { JsObject(question.choices.degrees[d], accidental) :
             d \in DOMAIN question.choices.degrees }
    ELSE IF question.type = "compare_two"
    THEN { JsString(question.choices[k].id) : k \in DOMAIN question.choices }
    ELSE IF question.type = "interval_scale"
    THEN { JsString(question.choices[k]) : k \in DOMAIN question.choices }
    ELSE IF Len(sequence) = Len(question.choices.positions)
    THEN { JsString(join(sequence, "-")) }
    ELSE {}

\* the entry submitAnswer writes into state.answers
AnswerRecord(index, question, answer, correct) ==
    [questionIndex |-> index + 1,
     question |-> question,
     userAnswer |-> answer,
     correctAnswer |-> question.correctAnswer,
     isCorrect |-> correct]

\* variant: a retry replaces the recorded answer
submitAnswerOverwriting(answer, question, recorded, index, answered, sequence) ==
    LET correct == isCorrect(question.correctAnswer, answer)
    IN  [answers |-> [recorded EXCEPT
                         ![index + 1] = AnswerRecord(index, question, answer, correct)],
         currentAnswered |-> TRUE,
         feedback |-> IF correct
                      THEN "Correct on first attempt."
                      ELSE "First attempt incorrect. Score is locked.",
         disabled |-> correct,
         sequenceInput |-> IF ~correct /\ isSortQuestion(question) THEN <<>> ELSE sequence]

\* submitAnswer(answer) on a question that is not null: state.answers,
\* state.currentAnswered, the feedback, whether the answer buttons end up
\* disabled, and state.sequenceInput after prepareRetryInput
submitAnswer(answer, question, recorded, index, answered, sequence) ==
    LET correct == isCorrect(question.correctAnswer, answer)
        existingRecord == recorded[index + 1]
    IN  IF existingRecord.questionIndex = 0
        THEN [answers |-> [recorded EXCEPT
                              ![index + 1] = AnswerRecord(index, question, answer, correct)],
              currentAnswered |-> TRUE,
              feedback |-> IF correct
                           THEN "Correct on first attempt."
                           ELSE "First attempt incorrect. Score is locked.",
              disabled |-> correct,
              sequenceInput |-> IF ~correct /\ isSortQuestion(question)
                                THEN <<>> ELSE sequence]
        ELSE [answers |-> recorded,
              currentAnswered |-> answered,
              feedback |-> IF correct
                           THEN "Practice attempt correct. First-attempt score remains locked."
                           ELSE "Still incorrect.",
              disabled |-> correct,
              sequenceInput |-> IF ~correct /\ isSortQuestion(question)
                                THEN <<>> ELSE sequence]

\* state.answers.filter((item) => item)
firstAttemptsOf(recorded) == SelectSeq(recorded, LAMBDA item : item.questionIndex # 0)

\* finishSession(): what renderResult is given, wrongItems by their number
finishSession(recorded) ==
    LET firstAttempts == firstAttemptsOf(recorded)
        wrongItems == SelectSeq(firstAttempts, LAMBDA item : ~item.isCorrect)
    IN  [correctCount |-> Len(SelectSeq(firstAttempts, LAMBDA item : item.isCorrect)),
         total |-> Len(firstAttempts),
         wrongCount |-> Len(wrongItems),
         shown |-> TRUE]

InitQuiz ==
    /\ GeneratorIdle
    /\ rng = 0
    /\ MapperIdle
    /\ sampling = NoSampling
    /\ VoicesIdle
    /\ QuizIdle
    /\ judged = NoJudging
    /\ RestIdle

\* startSession(moduleId) when POST /session succeeds, from a module button
\* of the dashboard or from the retry button of the result view, followed by
\* renderCurrentQuestion(); the handler is one step, no other handler runs
\* while it waits
StartSession ==
    /\ \E received \in SessionInputs :
           /\ Len(received.questions) > 0
           /\ \/ view = "dashboardView"
              \/ /\ view = "resultView"
                 /\ stateSession.present
                 /\ received.moduleId = stateSession.moduleId
           /\ stateSession' = received
           /\ answers' = [i \in 1..Len(received.questions) |-> NoRecord]
    /\ currentIndex' = 0
    /\ currentAnswered' = FALSE
    /\ view' = "quizView"
    /\ historyViews' = historyViews \cup {"quizView"}
    /\ sequenceInput' = <<>>
    /\ selectedAccidental' = "natural"
    /\ feedback' = ""
    /\ answerButtonsDisabled' = FALSE
    /\ savedResults' = 0
    /\ UNCHANGED <<result, starts>>
    /\ UNCHANGED <<genVars, mapVars, sampleVars, voiceVars, judgeVars, tuneVars, loadVars,
                   afterNavVars>>

\* a position button of renderSortAnswer is clicked
TapPosition ==
    /\ view = "quizView"
    /\ ~answerButtonsDisabled
    /\ LET question == currentQuestion(stateSession, currentIndex)
       IN  /\ isSortQuestion(question)
           /\ \E k \in DOMAIN question.choices.positions :
                  LET item == question.choices.positions[k]
                  IN  /\ \A j \in DOMAIN sequenceInput : sequenceInput[j] # item
                      /\ sequenceInput' = Append(sequenceInput, item)
    /\ UNCHANGED <<view, stateSession, currentIndex, answers, currentAnswered,
                   selectedAccidental, answerButtonsDisabled, feedback, result,
                   historyViews>>
    /\ UNCHANGED <<genVars, mapVars, sampleVars, voiceVars, judgeVars, restVars>>

\* the Clear button of renderSortAnswer is clicked
ClearSequence ==
    /\ view = "quizView"
    /\ ~answerButtonsDisabled
    /\ isSortQuestion(currentQuestion(stateSession, currentIndex))
    /\ sequenceInput # <<>>
    /\ sequenceInput' = <<>>
    /\ UNCHANGED <<view, stateSession, currentIndex, answers, currentAnswered,
                   selectedAccidental, answerButtonsDisabled, feedback, result,
                   historyViews>>
    /\ UNCHANGED <<genVars, mapVars, sampleVars, voiceVars, judgeVars, restVars>>

\* an answer button is clicked: submitAnswer(answer)
SubmitAnswer(answer) ==
    /\ view = "quizView"
    /\ ~answerButtonsDisabled
    /\ LET question == currentQuestion(stateSession, currentIndex)
       IN  /\ question # NoQuestion
           /\ answer \in SubmittableAnswers(question, selectedAccidental, sequenceInput)
           /\ LET submitted == submitAnswer(answer, question, answers, currentIndex,
                                            currentAnswered, sequenceInput)
              IN  /\ answers' = submitted.answers
                  /\ currentAnswered' = submitted.currentAnswered
                  /\ feedback' = submitted.feedback
                  /\ answerButtonsDisabled' = submitted.disabled
                  /\ sequenceInput' = submitted.sequenceInput
    /\ UNCHANGED <<view, stateSession, currentIndex, selectedAccidental, result,
                   historyViews>>
    /\ UNCHANGED <<genVars, mapVars, sampleVars, voiceVars, judgeVars, restVars>>

\* every answer a question of the sessions can be given
AnswerInputs ==
    UNION { UNION { SubmittableAnswers(received.questions[k], "natural", sequence) :
                      k \in DOMAIN received.questions,
                      sequence \in { <<"1", "2", "3">>, <<"1", "3", "2">>, <<"2", "1", "3">>,
                                     <<"2", "3", "1">>, <<"3", "1", "2">>, <<"3", "2", "1">> } } :
              received \in SessionInputs }

\* the Show Answer button is clicked: revealAnswer()
RevealAnswer ==
    /\ view = "quizView"
    /\ currentQuestion(stateSession, currentIndex) # NoQuestion
    /\ currentAnswered
    /\ feedback' = "Correct answer"
    /\ UNCHANGED <<view, stateSession, currentIndex, answers, currentAnswered,
                   sequenceInput, selectedAccidental, answerButtonsDisabled, result,
                   historyViews>>
    /\ UNCHANGED <<genVars, mapVars, sampleVars, voiceVars, judgeVars, restVars>>

\* the Next button's handler without its look at state.currentAnswered
NextQuestionUnanswered ==
    /\ view = "quizView"
    /\ stateSession.present
    /\ currentIndex # Len(stateSession.questions) - 1
    /\ currentIndex' = currentIndex + 1
    /\ IF currentQuestion(stateSession, currentIndex') # NoQuestion
       THEN /\ currentAnswered' = FALSE
            /\ sequenceInput' = <<>>
            /\ selectedAccidental' = "natural"
            /\ feedback' = ""
            /\ answerButtonsDisabled' = FALSE
       ELSE UNCHANGED <<currentAnswered, sequenceInput, selectedAccidental, feedback,
                        answerButtonsDisabled>>
    /\ UNCHANGED <<view, stateSession, answers, result, historyViews>>
    /\ UNCHANGED <<genVars, mapVars, sampleVars, voiceVars, judgeVars, restVars>>

\* the Next button is clicked on a question that is not the last one
NextQuestion ==
    /\ view = "quizView"
    /\ stateSession.present
    /\ currentAnswered
    /\ currentIndex # Len(stateSession.questions) - 1
    /\ currentIndex' = currentIndex + 1
    /\ IF currentQuestion(stateSession, currentIndex') # NoQuestion
       THEN /\ currentAnswered' = FALSE
            /\ sequenceInput' = <<>>
            /\ selectedAccidental' = "natural"
            /\ feedback' = ""
            /\ answerButtonsDisabled' = FALSE
       ELSE UNCHANGED <<currentAnswered, sequenceInput, selectedAccidental, feedback,
                        answerButtonsDisabled>>
    /\ UNCHANGED <<view, stateSession, answers, result, historyViews>>
    /\ UNCHANGED <<genVars, mapVars, sampleVars, voiceVars, judgeVars, restVars>>

\* the runs of saveSessionResult that the model follows for one session
MaxSaves == 2

\* saveSessionResult(accuracy): one entry more in the stored history and one
\* attempt more in the stored statistics of the module of state.session
saveSessionResult(saved) == saved + 1

\* the Next button is clicked on the last question: finishSession(), which
\* saves the result, renders it and shows the result view
FinishSession ==
    /\ view = "quizView"
    /\ stateSession.present
    /\ currentAnswered
    /\ currentIndex = Len(stateSession.questions) - 1
    /\ savedResults < MaxSaves
    /\ savedResults' = saveSessionResult(savedResults)
    /\ result' = finishSession(answers)
    /\ view' = "resultView"
    /\ historyViews' = historyViews \cup {"resultView"}
    /\ UNCHANGED <<stateSession, currentIndex, answers, currentAnswered, sequenceInput,
                   selectedAccidental, answerButtonsDisabled, feedback, starts>>
    /\ UNCHANGED <<genVars, mapVars, sampleVars, voiceVars, judgeVars, tuneVars, loadVars,
                   afterNavVars>>

\* goHomeView() of the Home button of the header, which every view shows,
\* and the back buttons of the quiz and of the result view
GoHomeView ==
    /\ stateSession' = NoClientSession
    /\ view' = "dashboardView"
    /\ UNCHANGED <<currentIndex, answers, currentAnswered, sequenceInput,
                   selectedAccidental, answerButtonsDisabled, feedback, result,
                   historyViews>>
    /\ UNCHANGED <<genVars, mapVars, sampleVars, voiceVars, judgeVars, restVars>>

\* handlePopState(event): the browser moves to a history entry of targetView
HandlePopState ==
    /\ \E targetView \in historyViews :
           /\ targetView # view
           /\ IF targetView \in {"quizView", "resultView"} /\ ~stateSession.present
              THEN /\ view' = "dashboardView"
                   /\ UNCHANGED stateSession
              ELSE /\ stateSession' = IF targetView = "dashboardView"
                                      THEN NoClientSession ELSE stateSession
                   /\ view' = targetView
    /\ UNCHANGED <<currentIndex, answers, currentAnswered, sequenceInput,
                   selectedAccidental, answerButtonsDisabled, feedback, result,
                   historyViews>>
    /\ UNCHANGED <<genVars, mapVars, sampleVars, voiceVars, judgeVars, restVars>>

NextQuiz ==
    \/ StartSession
    \/ TapPosition
    \/ ClearSequence
    \/ \E answer \in AnswerInputs : SubmitAnswer(answer)
    \/ RevealAnswer
    \/ NextQuestion
    \/ FinishSession
    \/ GoHomeView
    \/ HandlePopState

SpecQuiz == InitQuiz /\ [][NextQuiz]_vars

\* C17: the first answer submitted on a question is recorded with its mark,
\* no later submission on that question changes the recorded answer or the
\* mark, and the score of the finished session counts the recorded first
\* attempts only
C17_FirstAttemptScoring ==
    [][/\ \A answer \in AnswerInputs :
              SubmitAnswer(answer) =>
                  LET question == currentQuestion(stateSession, currentIndex)
                  IN  IF answers[currentIndex + 1].questionIndex = 0
                      THEN /\ answers'[currentIndex + 1].userAnswer = answer
                           /\ answers'[currentIndex + 1].isCorrect =
                                  isCorrect(question.correctAnswer, answer)
                           /\ \A i \in DOMAIN answers :
                                  i # currentIndex + 1 => answers'[i] = answers[i]
                      ELSE answers' = answers
       /\ ~StartSession =>
              \A i \in DOMAIN answers :
                  answers[i].questionIndex # 0 =>
                      /\ i \in DOMAIN answers'
                      /\ answers'[i] = answers[i]
       /\ FinishSession =>
              /\ result'.total = Cardinality({ i \in DOMAIN answers :
                                                 answers[i].questionIndex # 0 })
              /\ result'.correctCount =
                     Cardinality({ i \in DOMAIN answers :
                                     /\ answers[i].questionIndex # 0
                                     /\ answers[i].isCorrect })]_vars

\* a session is finished after a first attempt that was wrong was followed by
\* a practice attempt that was right: the wrong answer is what is scored
C17_Witness ==
    /\ view = "resultView"
    /\ result.shown
    /\ stateSession.present
    /\ feedback = "Practice attempt correct. First-attempt score remains locked."
    /\ ~answers[Len(answers)].isCorrect
    /\ result.correctCount < result.total
    /\ result.wrongCount > 0

-----------------------------------------------------------------------------
(* More properties of the sample mapper, checked under SpecMap *)

\* state.audioManifest is missing, has no samples array, or has an empty one
ManifestUnusable ==
    \/ ~audioManifest.isObject
    \/ ~audioManifest.samplesIsArray
    \/ Len(audioManifest.samples) = 0

\* C21: with a manifest that is missing, malformed (samples is not a list)
\* or empty, every call of the mapper throws, whatever the target frequency
\* is, and returns no mapping.
C21_UnusableManifestFails ==
    [][ MapTargetHzToSample /\ ManifestUnusable
          => mapError' # NoError /\ mapping' = NoMapping ]_vars

\* the mapper was called with a valid target on a manifest whose samples
\* array is empty, and threw
C21_Witness ==
    /\ audioManifest.isObject
    /\ audioManifest.samplesIsArray
    /\ Len(audioManifest.samples) = 0
    /\ targetHz = Number(200)
    /\ mapError = "No sample available"
    /\ mapping = NoMapping

\* sample a is at least as near to the pitch t as sample b is
AsNearAs(t, a, b) == Max(t, a) * Min(t, b) <= Max(t, b) * Min(t, a)

\* the position of the sample nearest to the pitch t, the first one of those
\* that are equally near
NearestIndexOf(t, samples) ==
    CHOOSE i \in 1..Len(samples) :
        /\ \A j \in 1..Len(samples) : AsNearAs(t, samples[i].hz, samples[j].hz)
        /\ \A j \in 1..(i - 1) : ~AsNearAs(t, samples[j].hz, samples[i].hz)

\* C22: a note whose sampleId is a string that names a sample of the loaded
\* manifest is resolved to exactly that sample; every other note (no sampleId,
\* or one the manifest does not know) is resolved to the sample nearest to its
\* frequency, and the resolution fails when that sample is more than 10 cents
\* away or when there is no sample. buildNotePayloads attaches sampleId and
\* midi to a payload only when a callback is supplied and returns them.
C22_SampleIdResolution ==
    /\ resolution # NoResolution =>
          LET note == resolution.note
              samples == audioManifest.samples
              t == note.frequency.value
          IN  IF note.sampleId # Undefined
                 /\ \E i \in 1..Len(samples) : samples[i].id = note.sampleId
              THEN /\ resolution.thrown = NoError
                   /\ resolution.sampleId = note.sampleId
                   /\ ~resolution.mapped
              ELSE /\ resolution.mapped
                   /\ IF ManifestUnusable
                      THEN resolution.thrown # NoError /\ resolution.sampleId = Undefined
                      ELSE LET nearest == samples[NearestIndexOf(t, samples)]
                           IN  IF WithinTenCents(t, nearest.hz)
                               THEN /\ resolution.thrown = NoError
                                    /\ resolution.sampleId = nearest.id
                               ELSE /\ resolution.thrown # NoError
                                    /\ resolution.sampleId = Undefined
    /\ payloading.called =>
          /\ Len(payloading.payloads) = Len(payloading.notes)
          /\ \A i \in 1..Len(payloading.payloads) :
                LET payload == payloading.payloads[i]
                    callback == payloading.callback
                    returned == callback.isFunction /\ callback.isObject
                IN  /\ "sampleId" \in DOMAIN payload
                          <=> returned /\ callback.sampleId # Undefined
                    /\ "sampleId" \in DOMAIN payload => payload.sampleId = callback.sampleId
                    /\ "midi" \in DOMAIN payload <=> returned /\ callback.midi # NoMidi
                    /\ "midi" \in DOMAIN payload => payload.midi = callback.midi
                    /\ payload.token = payloading.notes[i].token

\* a note that names the first sample of the manifest was resolved to it
\* although the second sample has exactly the pitch of the note
C22_Witness ==
    /\ resolution.note.sampleId = "s1"
    /\ resolution.note.frequency = Number(200)
    /\ Len(audioManifest.samples) = 2
    /\ audioManifest.samples[1].hz = 100
    /\ audioManifest.samples[2].hz = 200
    /\ resolution.sampleId = "s1"
    /\ resolution.thrown = NoError
    /\ ~resolution.mapped

\* the least and the greatest hz of the samples of the manifest
ManifestMinHz ==
    CHOOSE hz \in {audioManifest.samples[i].hz : i \in 1..Len(audioManifest.samples)} :
        \A i \in 1..Len(audioManifest.samples) : hz <= audioManifest.samples[i].hz

ManifestMaxHz ==
    CHOOSE hz \in {audioManifest.samples[i].hz : i \in 1..Len(audioManifest.samples)} :
        \A i \in 1..Len(audioManifest.samples) : hz >= audioManifest.samples[i].hz

-----------------------------------------------------------------------------
(* calculateDoFrequency called on its own *)

InitTuning ==
    /\ tuning \in { TuningOf(gender, KEY_OPTIONS[k].id, KEY_OPTIONS[other].id) :
                      gender \in DOMAIN GENDER_BASE_DO,
                      k \in 1..Len(KEY_OPTIONS), other \in 1..Len(KEY_OPTIONS) }
    /\ GeneratorIdle
    /\ rng = 0
    /\ MapperIdle
    /\ sampling = NoSampling
    /\ VoicesIdle
    /\ QuizIdle
    /\ judged = NoJudging
    /\ LaterIdle

\* the calls calculateDoFrequency("male", keyId), ("female", keyId) and
\* (gender, otherKeyId)
CalculateDoFrequency ==
    /\ ~tuning.called
    /\ tuning' = [tuning EXCEPT
                     !.called = TRUE,
                     !.male = calculateDoFrequency("male", tuning.keyId),
                     !.female = calculateDoFrequency("female", tuning.keyId),
                     !.other = calculateDoFrequency(tuning.gender, tuning.otherKeyId)]
    /\ UNCHANGED <<genVars, mapVars, sampleVars, voiceVars, quizVars, judgeVars, laterVars>>

NextTuning == CalculateDoFrequency

SpecTuning == InitTuning /\ [][NextTuning]_vars

\* the exact frequency left is lower than the exact frequency right, for
\* two frequencies baseDo * 2 ** (twelfths / 12) over the same baseDo
LowerThan(left, right) ==
    /\ left.baseDo = right.baseDo
    /\ left.twelfths < right.twelfths

\* C24: for a fixed gender doFrequency is strictly increasing in the index
\* of the key among the 12 keys, from C to B, as an exact value and as the
\* value rounded to four decimals that a session carries; and for every key
\* the doFrequency of the female voice is exactly twice that of the male
\* voice.
C24_DoFrequencyOrder ==
    tuning.called =>
        LET own == IF tuning.gender = "male" THEN tuning.male ELSE tuning.female
        IN  /\ KEY_OFFSETS[tuning.keyId] < KEY_OFFSETS[tuning.otherKeyId]
                  => /\ LowerThan(own, tuning.other)
                     /\ roundTo4(own) < roundTo4(tuning.other)
            /\ tuning.female.twelfths = tuning.male.twelfths
            /\ tuning.female.baseDo = 2 * tuning.male.baseDo
            /\ tuning.male.twelfths = KEY_OFFSETS[tuning.keyId]

\* the doFrequency of the female voice in A# was compared with that in B
C24_Witness ==
    /\ tuning.called
    /\ tuning.gender = "female"
    /\ tuning.keyId = "A#/Bb"
    /\ tuning.otherKeyId = "B"
    /\ tuning.other.twelfths = 11
    /\ tuning.female.baseDo = FEMALE_DO_C
    /\ tuning.male.baseDo = MALE_DO_C

-----------------------------------------------------------------------------
(* ensureSampleBuffer, preloadAllSamples and the promises they create *)

MaxFetches == 2

\* the variables that the sample loader leaves alone
notLoadVars ==
    <<genVars, mapVars, sampleVars, voiceVars, quizVars, judgeVars, tuneVars, navVars,
      afterNavVars>>

\* the ids of state.sampleById, built from the samples of the manifest
LoadableIds == { ManifestSampleIds[i] : i \in 1..Len(ManifestSampleIds) }

\* a promise that ensureSampleBuffer created, for the file of sampleId in the
\* manifest of instrument; stage is where its chain stands:
\*   "fetching"   the function waits for fetch
\*   "decoding"   the function waits for arrayBuffer and decodeAudioData
\*   "resolved"   the function has set the cache entry and returned
\*   "rejected"   the function has thrown, .catch has not run yet
\*   "caught"     .catch has run, .finally has not
\*   "fulfilled"  .finally has run after "resolved": the promise is settled
\*   "failed"     .finally has run after "caught": the promise is settled
FetchOf(sampleId, instrument, stage) ==
    [sampleId |-> sampleId, instrument |-> instrument, stage |-> stage]

InFlightStages == {"fetching", "decoding"}

\* ensureSampleBuffer without the look at state.sampleFetchPromises
ensureSampleBufferUnshared(sampleId, cache, promises, created, instrument) ==
    IF cache[sampleId] # NoBuffer
    THEN [kind |-> "cached", promise |-> NoPromise,
          fetches |-> created, sampleFetchPromises |-> promises]
    ELSE LET number == Len(created) + 1
             stage == IF sampleId \in LoadableIds THEN "fetching" ELSE "rejected"
         IN  [kind |-> "started", promise |-> number,
              fetches |-> Append(created, FetchOf(sampleId, instrument, stage)),
              sampleFetchPromises |-> [promises EXCEPT ![sampleId] = number]]

\* ensureSampleBuffer(context, sampleId) up to its return: what it returns
\* (the cached buffer, the promise in flight or a new promise) and the
\* promises and the in-flight table it leaves. The new promise's function
\* runs to its first await (or to its throw, for an unknown sample) before
\* the table is set.
ensureSampleBuffer(sampleId, cache, promises, created, instrument) ==
    IF cache[sampleId] # NoBuffer
    THEN [kind |-> "cached", promise |-> NoPromise,
          fetches |-> created, sampleFetchPromises |-> promises]
    ELSE IF promises[sampleId] # NoPromise
    THEN [kind |-> "shared", promise |-> promises[sampleId],
          fetches |-> created, sampleFetchPromises |-> promises]
    ELSE LET number == Len(created) + 1
             stage == IF sampleId \in LoadableIds THEN "fetching" ELSE "rejected"
         IN  [kind |-> "started", promise |-> number,
              fetches |-> Append(created, FetchOf(sampleId, instrument, stage)),
              sampleFetchPromises |-> [promises EXCEPT ![sampleId] = number]]

\* state.audioManifest.samples.map((sample) => ensureSampleBuffer(context,
\* sample.id)): the promises Promise.all waits for, and the state left
RECURSIVE ensureEach(_, _, _, _, _)
ensureEach(sampleIds, cache, promises, created, instrument) ==
    IF sampleIds = <<>>
    THEN [awaits |-> {}, fetches |-> created, sampleFetchPromises |-> promises]
    ELSE LET first == ensureSampleBuffer(Head(sampleIds), cache, promises, created,
                                         instrument)
             rest == ensureEach(Tail(sampleIds), cache, first.sampleFetchPromises,
                                first.fetches, instrument)
         IN  [rest EXCEPT !.awaits =
                 @ \cup (IF first.kind = "cached" THEN {} ELSE {first.promise})]

InitLoad ==
    /\ GeneratorIdle
    /\ rng = 0
    /\ MapperIdle
    /\ OthersIdle

\* a call of ensureSampleBuffer(context, sampleId), by playNotes,
\* playKeyboardDegree or the warm-up
EnsureSampleBuffer(sampleId) ==
    LET outcome == ensureSampleBuffer(sampleId, sampleBufferCache, sampleFetchPromises,
                                      fetches, audioManifestInstrument)
    IN  /\ Len(outcome.fetches) <= MaxFetches
        /\ fetches' = outcome.fetches
        /\ sampleFetchPromises' = outcome.sampleFetchPromises
        /\ ensured' = [sampleId |-> sampleId, kind |-> outcome.kind,
                       promise |-> outcome.promise]
        /\ UNCHANGED <<sampleBufferCache, sampleLoadPromise, switchVars, notLoadVars>>

\* preloadAllSamples() with the manifest loaded: a second call returns the
\* promise of the first
PreloadAllSamples ==
    /\ ~sampleLoadPromise.present
    /\ LET outcome == ensureEach(ManifestSampleIds, sampleBufferCache,
                                 sampleFetchPromises, fetches, audioManifestInstrument)
       IN  /\ Len(outcome.fetches) <= MaxFetches
           /\ fetches' = outcome.fetches
           /\ sampleFetchPromises' = outcome.sampleFetchPromises
           /\ sampleLoadPromise' = [present |-> TRUE, awaits |-> outcome.awaits]
    /\ ensured' = NoEnsured
    /\ UNCHANGED <<sampleBufferCache, switchVars, notLoadVars>>

\* fetch settles for promise number: with response.ok the function goes on
\* to decode, otherwise it throws
FetchSettles(number, ok) ==
    /\ number \in 1..Len(fetches)
    /\ fetches[number].stage = "fetching"
    /\ fetches' = [fetches EXCEPT ![number].stage = IF ok THEN "decoding" ELSE "rejected"]
    /\ ensured' = NoEnsured
    /\ UNCHANGED <<sampleBufferCache, sampleFetchPromises, sampleLoadPromise,
                   switchVars, notLoadVars>>

\* decodeAudioData settles for promise number: the function sets the cache
\* entry and returns, or throws
DecodeSettles(number, ok) ==
    /\ number \in 1..Len(fetches)
    /\ fetches[number].stage = "decoding"
    /\ fetches' = [fetches EXCEPT ![number].stage = IF ok THEN "resolved" ELSE "rejected"]
    /\ sampleBufferCache' =
           IF ok
           THEN [sampleBufferCache EXCEPT
                    ![fetches[number].sampleId] = fetches[number].instrument]
           ELSE sampleBufferCache
    /\ ensured' = NoEnsured
    /\ UNCHANGED <<sampleFetchPromises, sampleLoadPromise, switchVars, notLoadVars>>

\* the .catch callback of promise number
CatchRuns(number) ==
    /\ number \in 1..Len(fetches)
    /\ fetches[number].stage = "rejected"
    /\ fetches' = [fetches EXCEPT ![number].stage = "caught"]
    /\ sampleBufferCache' =
           [sampleBufferCache EXCEPT ![fetches[number].sampleId] = NoBuffer]
    /\ ensured' = NoEnsured
    /\ UNCHANGED <<sampleFetchPromises, sampleLoadPromise, switchVars, notLoadVars>>

\* the .finally callback of promise number, which settles it; Promise.all of
\* preloadAllSamples rejects with the first of its promises that fails, and
\* preloadAllSamples then sets state.sampleLoadPromise to null
FinallyRuns(number) ==
    /\ number \in 1..Len(fetches)
    /\ fetches[number].stage \in {"resolved", "caught"}
    /\ fetches' = [fetches EXCEPT
                      ![number].stage = IF @ = "resolved" THEN "fulfilled" ELSE "failed"]
    /\ sampleFetchPromises' =
           [sampleFetchPromises EXCEPT ![fetches[number].sampleId] = NoPromise]
    /\ sampleLoadPromise' =
           IF number \notin sampleLoadPromise.awaits
           THEN sampleLoadPromise
           ELSE IF fetches[number].stage = "caught"
           THEN NoLoadPromise
           ELSE [sampleLoadPromise EXCEPT !.awaits = @ \ {number}]
    /\ ensured' = NoEnsured
    /\ UNCHANGED <<sampleBufferCache, switchVars, notLoadVars>>

PromiseSteps ==
    \E number \in 1..MaxFetches + 1 :
        \/ \E ok \in BOOLEAN : FetchSettles(number, ok)
        \/ \E ok \in BOOLEAN : DecodeSettles(number, ok)
        \/ CatchRuns(number)
        \/ FinallyRuns(number)

NextLoad ==
    \/ \E sampleId \in LoadIds : EnsureSampleBuffer(sampleId)
    \/ PreloadAllSamples
    \/ PromiseSteps

SpecLoad == InitLoad /\ [][NextLoad]_vars

\* the promises of sampleId whose fetch or decode is in flight
InFlightOf(sampleId, created) ==
    { number \in 1..Len(created) :
        /\ created[number].sampleId = sampleId
        /\ created[number].stage \in InFlightStages }

\* the promises created for sampleId
FetchesOf(sampleId, created) ==
    { number \in 1..Len(created) : created[number].sampleId = sampleId }

\* the last promise created for sampleId has failed
LastFailed(sampleId, created) ==
    /\ FetchesOf(sampleId, created) # {}
    /\ \E number \in FetchesOf(sampleId, created) :
        /\ \A other \in FetchesOf(sampleId, created) : other <= number
        /\ created[number].stage = "failed"

\* C25: for each sample id at most one fetch or decode is in flight; a call
\* of ensureSampleBuffer made while one is in flight returns that promise and
\* starts no other; the cache gets an entry for an id only in the step in
\* which a decode for that id succeeds; and when a promise fails, neither the
\* cache nor the in-flight table holds an entry for its id, so that the next
\* call for the id starts a new fetch.
C25_SingleFetchPerSample ==
    [][ /\ \A sampleId \in LoadIds : Cardinality(InFlightOf(sampleId, fetches')) <= 1
        /\ \A sampleId \in LoadIds :
            (ensured'.kind # "none" /\ ensured'.sampleId = sampleId
                /\ InFlightOf(sampleId, fetches) # {})
            => /\ fetches' = fetches
               /\ ensured'.kind = "shared"
               /\ ensured'.promise \in InFlightOf(sampleId, fetches)
        /\ \A sampleId \in LoadIds :
            (sampleBufferCache[sampleId] = NoBuffer
                /\ sampleBufferCache'[sampleId] # NoBuffer)
            => \E number \in FetchesOf(sampleId, fetches) :
                /\ fetches[number].stage = "decoding"
                /\ fetches'[number].stage = "resolved"
        /\ \A number \in 1..Len(fetches) :
            (fetches[number].stage # "failed" /\ fetches'[number].stage = "failed")
            => /\ sampleBufferCache'[fetches[number].sampleId] = NoBuffer
               /\ sampleFetchPromises'[fetches[number].sampleId] = NoPromise
        /\ \A sampleId \in LoadableIds :
            (ensured'.kind # "none" /\ ensured'.sampleId = sampleId
                /\ LastFailed(sampleId, fetches))
            => /\ ensured'.kind = "started"
               /\ fetches'[ensured'.promise] = FetchOf(sampleId, audioManifestInstrument, "fetching")
      ]_vars

\* the first fetch of a sample has failed, a call has started a second one,
\* and a further call shares the second one while it decodes
C25_Witness ==
    /\ Len(fetches) >= 2
    /\ fetches[1].stage = "failed"
    /\ fetches[2].sampleId = fetches[1].sampleId
    /\ fetches[2].stage = "decoding"
    /\ ensured.kind = "shared"
    /\ ensured.promise = 2
    /\ sampleBufferCache[fetches[1].sampleId] = NoBuffer

-----------------------------------------------------------------------------
(* the switch of instrument: onSettingsChange, startSession,
   loadAudioManifest and resetAudioPlaybackState of the client that has
   instruments, whose ensureSampleBuffer is the one above with the sample
   file taken from the manifest of state.audioManifestInstrument *)

\* the variables that a switch of instrument leaves alone; it empties
\* state.activeVoices
notSwitchVars ==
    <<genVars, mapVars, sampleVars, quizVars, judgeVars, tuneVars, navVars, afterNavVars,
      sourceCount, isPlaying, playback, voiceEvent>>

ManifestLoadOf(previous, instrument) ==
    [pending |-> TRUE, previous |-> previous, instrument |-> instrument]

\* resetAudioPlaybackState(): the voices, the buffer cache and the in-flight
\* table it leaves
resetAudioPlaybackState ==
    [activeVoices |-> <<>>,
     sampleBufferCache |-> [sampleId \in LoadIds |-> NoBuffer],
     sampleFetchPromises |-> [sampleId \in LoadIds |-> NoPromise]]

\* the user selects nextInstrument and onSettingsChange() runs up to its
\* await of loadAudioManifest; with the instrument unchanged it runs to its
\* end
OnSettingsChange(nextInstrument) ==
    /\ ~settingsChange.pending
    /\ instrumentSelect' = nextInstrument
    /\ settingsInstrument' = nextInstrument
    /\ settingsChange' =
           IF nextInstrument # settingsInstrument
           THEN ManifestLoadOf(settingsInstrument, nextInstrument)
           ELSE settingsChange
    /\ ensured' = NoEnsured
    /\ UNCHANGED <<sampleBufferCache, sampleFetchPromises, fetches, sampleLoadPromise,
                   audioManifestInstrument, sessionStart, notLoadVars>>

\* loadAudioManifest succeeds for onSettingsChange, which resets the
\* playback state
SettingsManifestLoaded ==
    /\ settingsChange.pending
    /\ audioManifestInstrument' = settingsChange.instrument
    /\ activeVoices' = resetAudioPlaybackState.activeVoices
    /\ sampleBufferCache' = resetAudioPlaybackState.sampleBufferCache
    /\ sampleFetchPromises' = resetAudioPlaybackState.sampleFetchPromises
    /\ settingsChange' = NoManifestLoad
    /\ ensured' = NoEnsured
    /\ UNCHANGED <<fetches, sampleLoadPromise, settingsInstrument, instrumentSelect,
                   sessionStart, notSwitchVars>>

\* loadAudioManifest fails for onSettingsChange, which restores the
\* instrument
SettingsManifestFails ==
    /\ settingsChange.pending
    /\ settingsInstrument' = settingsChange.previous
    /\ instrumentSelect' = settingsChange.previous
    /\ settingsChange' = NoManifestLoad
    /\ ensured' = NoEnsured
    /\ UNCHANGED <<sampleBufferCache, sampleFetchPromises, fetches, sampleLoadPromise,
                   audioManifestInstrument, sessionStart, notLoadVars>>

\* startSession(moduleId) up to its await of ensureManifestForInstrument,
\* which returns at once when the manifest is the instrument's
StartSessionManifest ==
    /\ ~sessionStart.pending
    /\ sessionStart' =
           IF audioManifestInstrument = instrumentSelect
           THEN sessionStart
           ELSE ManifestLoadOf(audioManifestInstrument, instrumentSelect)
    /\ settingsInstrument' =
           IF audioManifestInstrument = instrumentSelect
           THEN instrumentSelect
           ELSE settingsInstrument
    /\ ensured' = NoEnsured
    /\ UNCHANGED <<sampleBufferCache, sampleFetchPromises, fetches, sampleLoadPromise,
                   audioManifestInstrument, instrumentSelect, settingsChange,
                   notLoadVars>>

\* loadAudioManifest succeeds for startSession, which resets the playback
\* state when the manifest was another instrument's and goes on to POST
\* /session
SessionManifestLoaded ==
    /\ sessionStart.pending
    /\ audioManifestInstrument' = sessionStart.instrument
    /\ IF sessionStart.previous # sessionStart.instrument
       THEN /\ activeVoices' = resetAudioPlaybackState.activeVoices
            /\ sampleBufferCache' = resetAudioPlaybackState.sampleBufferCache
            /\ sampleFetchPromises' = resetAudioPlaybackState.sampleFetchPromises
       ELSE UNCHANGED <<activeVoices, sampleBufferCache, sampleFetchPromises>>
    /\ settingsInstrument' = sessionStart.instrument
    /\ sessionStart' = NoManifestLoad
    /\ ensured' = NoEnsured
    /\ UNCHANGED <<fetches, sampleLoadPromise, instrumentSelect, settingsChange,
                   notSwitchVars>>

\* loadAudioManifest fails for startSession, which shows the error
SessionManifestFails ==
    /\ sessionStart.pending
    /\ sessionStart' = NoManifestLoad
    /\ ensured' = NoEnsured
    /\ UNCHANGED <<sampleBufferCache, sampleFetchPromises, fetches, sampleLoadPromise,
                   audioManifestInstrument, settingsInstrument, instrumentSelect,
                   settingsChange, notLoadVars>>

\* the sample that the calls of this specification ask for
SwitchSampleIds == {"m069"}

NextSwitch ==
    \/ \E sampleId \in SwitchSampleIds : EnsureSampleBuffer(sampleId)
    \/ PromiseSteps
    \/ \E nextInstrument \in Instruments : OnSettingsChange(nextInstrument)
    \/ SettingsManifestLoaded
    \/ SettingsManifestFails
    \/ StartSessionManifest
    \/ SessionManifestLoaded
    \/ SessionManifestFails

SpecSwitch == InitLoad /\ [][NextSwitch]_vars

\* C26: the cache holds only buffers decoded from files of the manifest of
\* the current instrument; a fetch of another instrument's file, started
\* before the switch, puts no buffer into the cache; and an entry of the
\* in-flight table is removed only by a reset or when its own promise
\* settles, never by a promise started before the switch.
C26_NoStaleFetchEffects ==
    [][ /\ \A sampleId \in LoadIds :
            sampleBufferCache'[sampleId] \in {NoBuffer, audioManifestInstrument'}
        /\ \A number \in 1..Len(fetches) :
            (fetches[number].stage = "decoding" /\ fetches'[number].stage = "resolved"
                /\ fetches[number].instrument # audioManifestInstrument)
            => sampleBufferCache' = sampleBufferCache
        /\ \A sampleId \in LoadIds :
            (sampleFetchPromises[sampleId] # NoPromise
                /\ sampleFetchPromises'[sampleId] = NoPromise
                /\ settingsChange' = settingsChange /\ sessionStart' = sessionStart)
            => fetches'[sampleFetchPromises[sampleId]].stage \in {"fulfilled", "failed"}
      ]_vars

-----------------------------------------------------------------------------
(* More properties of the quiz, checked under SpecQuiz *)

\* C27: saveSessionResult runs at most once for a started session, whatever
\* clicks of Next and Finish, of the Home and back buttons, and moves in the
\* browser history follow.
C27_ResultSavedOnce == savedResults <= 1

-----------------------------------------------------------------------------
(* The quiz with startSession as the asynchronous function it is: the other
   handlers run while it waits for POST /session and for the audio unlock *)

\* the calls of startSession that may wait at the same time
MaxStarts == 2

\* the sessions that POST /session answers with in this specification: those
\* of one module, which the two calls that may wait at a time both ask for
NavSessionInputs == { received \in SessionInputs : received.moduleId \in {"M2-L1"} }

StartOf(stage, received) == [stage |-> stage, received |-> received]

\* the sequence without its k-th element
RemoveAt(sequence, k) ==
    [i \in 1..(Len(sequence) - 1) |-> IF i < k THEN sequence[i] ELSE sequence[i + 1]]

\* a module button of the dashboard or the retry button of the result view
\* is clicked: startSession(moduleId) up to its await of fetch
BeginStartSession ==
    /\ Len(starts) < MaxStarts
    /\ \E received \in NavSessionInputs :
           /\ Len(received.questions) > 0
           /\ \/ view = "dashboardView"
              \/ /\ view = "resultView"
                 /\ stateSession.present
                 /\ received.moduleId = stateSession.moduleId
           /\ starts' = Append(starts, StartOf("fetching", received))
    /\ UNCHANGED <<quizVars, savedResults>>
    /\ UNCHANGED <<genVars, mapVars, sampleVars, voiceVars, judgeVars, tuneVars, loadVars,
                   afterNavVars>>

\* POST /session fails or answers with an error status: startSession shows
\* the error and ends
SessionFetchFails(k) ==
    /\ k \in 1..Len(starts)
    /\ starts[k].stage = "fetching"
    /\ starts' = RemoveAt(starts, k)
    /\ UNCHANGED <<quizVars, savedResults>>
    /\ UNCHANGED <<genVars, mapVars, sampleVars, voiceVars, judgeVars, tuneVars, loadVars,
                   afterNavVars>>

\* POST /session answers: startSession sets the session, the index, the
\* answers and currentAnswered, up to its await of unlockAudioPipeline
SessionReceived(k) ==
    /\ k \in 1..Len(starts)
    /\ starts[k].stage = "fetching"
    /\ starts' = [starts EXCEPT ![k].stage = "unlocking"]
    /\ stateSession' = starts[k].received
    /\ currentIndex' = 0
    /\ answers' = [i \in 1..Len(starts[k].received.questions) |-> NoRecord]
    /\ currentAnswered' = FALSE
    /\ savedResults' = 0
    /\ UNCHANGED <<view, sequenceInput, selectedAccidental, answerButtonsDisabled,
                   feedback, result, historyViews>>
    /\ UNCHANGED <<genVars, mapVars, sampleVars, voiceVars, judgeVars, tuneVars, loadVars,
                   afterNavVars>>

\* unlockAudioPipeline rejects: startSession shows the error and ends
SessionUnlockFails(k) ==
    /\ k \in 1..Len(starts)
    /\ starts[k].stage = "unlocking"
    /\ starts' = RemoveAt(starts, k)
    /\ UNCHANGED <<quizVars, savedResults>>
    /\ UNCHANGED <<genVars, mapVars, sampleVars, voiceVars, judgeVars, tuneVars, loadVars,
                   afterNavVars>>

\* unlockAudioPipeline resolves: startSession navigates to the quiz view and
\* calls renderCurrentQuestion(), which returns at once without a question
SessionShown(k) ==
    /\ k \in 1..Len(starts)
    /\ starts[k].stage = "unlocking"
    /\ starts' = RemoveAt(starts, k)
    /\ view' = "quizView"
    /\ historyViews' = historyViews \cup {"quizView"}
    /\ IF currentQuestion(stateSession, currentIndex) # NoQuestion
       THEN /\ currentAnswered' = FALSE
            /\ sequenceInput' = <<>>
            /\ selectedAccidental' = "natural"
            /\ feedback' = ""
            /\ answerButtonsDisabled' = FALSE
       ELSE UNCHANGED <<currentAnswered, sequenceInput, selectedAccidental, feedback,
                        answerButtonsDisabled>>
    /\ UNCHANGED <<stateSession, currentIndex, answers, result, savedResults>>
    /\ UNCHANGED <<genVars, mapVars, sampleVars, voiceVars, judgeVars, tuneVars, loadVars,
                   afterNavVars>>

StartSteps ==
    \E k \in 1..MaxStarts + 1 :
        \/ SessionFetchFails(k)
        \/ SessionReceived(k)
        \/ SessionUnlockFails(k)
        \/ SessionShown(k)

NextNav ==
    \/ BeginStartSession
    \/ StartSteps
    \/ \E answer \in AnswerInputs : SubmitAnswer(answer)
    \/ RevealAnswer
    \/ NextQuestion
    \/ FinishSession
    \/ GoHomeView
    \/ HandlePopState

SpecNav == InitQuiz /\ [][NextNav]_vars

\* the answers recorded for the questions before position index
RecordedBefore(recorded, index) ==
    \A i \in 1..index : i \in DOMAIN recorded /\ recorded[i].questionIndex # 0

\* C29: the quiz view and the result view are not the active view while
\* state.session is null, under every interleaving of the completion of
\* startSession with the Home button, the back buttons and the moves in the
\* browser history.
C29_NoQuizWithoutSession ==
    view \in {"quizView", "resultView"} => stateSession.present

\* C28: while a session is held, every question before the current index
\* has a recorded first-attempt answer and the index is that of a question;
\* the index of a session just received is 0; the index changes otherwise
\* only by one, upwards, after an answer to the current question has been
\* recorded; and when the session is finished every question has a recorded
\* answer and the total of the score is the number of questions.
C28_IndexFollowsAnswers ==
    [][ /\ stateSession'.present =>
               /\ currentIndex' \in 0..(Len(stateSession'.questions) - 1)
               /\ Len(answers') = Len(stateSession'.questions)
               /\ RecordedBefore(answers', currentIndex')
        /\ (stateSession'.present /\ stateSession' # stateSession) => currentIndex' = 0
        /\ currentIndex' # currentIndex =>
               \/ /\ currentIndex' = 0
                  /\ \E k \in 1..Len(starts) : SessionReceived(k)
               \/ /\ currentIndex' = currentIndex + 1
                  /\ currentAnswered
                  /\ answers[currentIndex + 1].questionIndex # 0
                  /\ answers' = answers
        /\ FinishSession =>
               /\ \A i \in 1..Len(stateSession.questions) : answers[i].questionIndex # 0
               /\ result'.total = Len(stateSession.questions)
      ]_vars

\* a session of more than one question has been finished and saved once,
\* with no startSession call waiting: the score counts every question
C28_Witness ==
    /\ view = "resultView"
    /\ stateSession.present
    /\ Len(stateSession.questions) > 1
    /\ currentIndex = Len(stateSession.questions) - 1
    /\ result.shown
    /\ result.total = Len(stateSession.questions)
    /\ savedResults = 1
    /\ starts = <<>>

-----------------------------------------------------------------------------
(* More properties of the playback voices, checked under SpecVoices *)

\* C30: when playNotes schedules the notes of a question, and so ends
\* without an error, it starts one voice for each note, in the order of the
\* notes, and skips none, also when keyboard taps have started voices before
\* or while it waited.
C30_EveryNoteStarted ==
    [][ PlayNotesSchedule =>
            /\ voiceEvent'.started = playback.noteCount
            /\ voiceEvent'.dropped = 0
            /\ activeVoices' =
                   activeVoices \o [i \in 1..playback.noteCount |-> sourceCount + i]
      ]_vars

\* C31: one quiz playback runs at a time. isPlaying is set exactly while a
\* playNotes call is between its start and its end; a playNotes call made
\* meanwhile starts no voice and leaves the running playback as it is; a
\* playback goes from loading to sleeping and to its end, never back; when
\* it ends, after the sleep or with an error, isPlaying is false; and a
\* playback that runs ends, so that Repeat works again.
C31_OnePlaybackAtATime ==
    /\ [](isPlaying <=> playback.pc # "idle")
    /\ [][ /\ (PlayNotesBegin /\ isPlaying) =>
                  /\ playback' = playback
                  /\ isPlaying'
                  /\ activeVoices' = activeVoices
                  /\ sourceCount' = sourceCount
                  /\ voiceEvent' = NoVoiceEvent
           /\ (isPlaying /\ playback' # playback) =>
                  \/ playback' = NoPlayback /\ ~isPlaying'
                  \/ /\ playback.pc = "loading"
                     /\ playback' = [playback EXCEPT !.pc = "sleeping"]
           /\ PlayNotesEnd => ~isPlaying' ]_vars
    /\ (isPlaying ~> ~isPlaying)

\* a playNotes call was refused while a playback with voices scheduled was
\* asleep
C31_Witness ==
    /\ isPlaying
    /\ playback.pc = "sleeping"
    /\ playback.noteCount = 3
    /\ Len(activeVoices) >= 3
    /\ voiceEvent = NoVoiceEvent

-----------------------------------------------------------------------------
(* Held keyboard tones of the client that holds tones: startHeldTone,
   stopHeldTone, startHeldOscillatorTone and stopAllHeldTones *)

\* the variables that the held tones leave alone
notHeldVars ==
    <<genVars, mapVars, sampleVars, voiceVars, quizVars, judgeVars, tuneVars, loadVars,
      navVars, afterHeldVars>>

\* the entry startHeldTone puts into the table before its first await
PendingTone ==
    [present |-> TRUE, pending |-> TRUE, requestedStop |-> FALSE, hasSource |-> FALSE,
     fresh |-> FALSE, stopTimer |-> FALSE]

\* startHeldOscillatorTone(frequency): the entry { source, gainNode } it
\* returns, which has no pending, requestedStop or startedAtMs, or null
\* (NoTone) without an audio context
startHeldOscillatorTone(context) ==
    IF context # "created"
    THEN NoTone
    ELSE [present |-> TRUE, pending |-> FALSE, requestedStop |-> FALSE, hasSource |-> TRUE,
          fresh |-> FALSE, stopTimer |-> FALSE]

\* stopHeldTone(toneId, force) for the entry tone of the table: the entry it
\* leaves, NoTone when it deletes it. fresh says that less than
\* MIN_HELD_TONE_MS have passed since startedAtMs.
stopHeldTone(tone, force) ==
    IF ~tone.present
    THEN tone
    ELSE IF tone.pending \/ ~tone.hasSource
    THEN [tone EXCEPT !.requestedStop = TRUE]
    ELSE IF ~force /\ tone.fresh
    THEN [tone EXCEPT !.stopTimer = TRUE]
    ELSE NoTone

InitHeld ==
    /\ GeneratorIdle
    /\ rng = 0
    /\ MapperIdle
    /\ sampling = NoSampling
    /\ VoicesIdle
    /\ QuizIdle
    /\ judged = NoJudging
    /\ tuning = NoTuning
    /\ LoaderIdle
    /\ NavIdle
    /\ heldTones = [toneId \in ToneIds |-> NoTone]
    /\ released = [toneId \in ToneIds |-> FALSE]
    /\ audioCtx \in {"unavailable", "none"}
    /\ AfterHeldIdle

\* key down or pointer down: startHeldTone(toneId, degree) up to its first
\* await; ensureAudioContext creates the context when the browser has one
KeyDown(toneId) ==
    /\ IF heldTones[toneId].present
       THEN UNCHANGED <<heldTones, audioCtx>>
       ELSE /\ heldTones' = [heldTones EXCEPT ![toneId] = PendingTone]
            /\ audioCtx' = IF audioCtx = "none" THEN "created" ELSE audioCtx
    /\ UNCHANGED <<released, notHeldVars>>

\* the awaits of startHeldTone resolve: the source starts, and a stop
\* requested meanwhile is carried out
StartSucceeds(toneId) ==
    /\ heldTones[toneId].present
    /\ heldTones[toneId].pending
    /\ audioCtx = "created"
    /\ LET started == [heldTones[toneId] EXCEPT
                          !.pending = FALSE, !.hasSource = TRUE, !.fresh = TRUE]
       IN  heldTones' = [heldTones EXCEPT ![toneId] =
                            IF started.requestedStop
                            THEN stopHeldTone(started, FALSE)
                            ELSE started]
    /\ UNCHANGED <<released, audioCtx, notHeldVars>>

\* an await of startHeldTone, or the mapping, throws: the catch block puts
\* the oscillator tone into the table, or deletes the entry without one
StartFails(toneId) ==
    /\ heldTones[toneId].present
    /\ heldTones[toneId].pending
    /\ heldTones' = [heldTones EXCEPT ![toneId] = startHeldOscillatorTone(audioCtx)]
    /\ released' = [released EXCEPT ![toneId] = @ /\ heldTones'[toneId].present]
    /\ UNCHANGED <<audioCtx, notHeldVars>>

\* key up, pointer up, cancel or leave: stopHeldTone(toneId)
KeyUp(toneId) ==
    /\ heldTones' = [heldTones EXCEPT ![toneId] = stopHeldTone(@, FALSE)]
    /\ released' = [released EXCEPT ![toneId] = heldTones'[toneId].present]
    /\ UNCHANGED <<audioCtx, notHeldVars>>

\* stopAllHeldTones(): the window loses the focus, the page is hidden, or
\* goHomeView runs
StopAllHeldTones ==
    /\ heldTones' = [toneId \in ToneIds |-> stopHeldTone(heldTones[toneId], FALSE)]
    /\ released' = [toneId \in ToneIds |-> heldTones'[toneId].present]
    /\ UNCHANGED <<audioCtx, notHeldVars>>

\* the timeout that stopHeldTone has set fires: stopHeldTone(toneId, true)
StopTimerFires(toneId) ==
    /\ heldTones[toneId].present
    /\ heldTones[toneId].stopTimer
    /\ heldTones' = [heldTones EXCEPT ![toneId] =
                        stopHeldTone([@ EXCEPT !.stopTimer = FALSE], TRUE)]
    /\ released' = [released EXCEPT ![toneId] = @ /\ heldTones'[toneId].present]
    /\ UNCHANGED <<audioCtx, notHeldVars>>

\* MIN_HELD_TONE_MS have passed since the source started
MinHoldElapses(toneId) ==
    /\ heldTones[toneId].present
    /\ heldTones[toneId].fresh
    /\ heldTones' = [heldTones EXCEPT ![toneId].fresh = FALSE]
    /\ UNCHANGED <<released, audioCtx, notHeldVars>>

NextHeld ==
    \/ \E toneId \in ToneIds :
        \/ KeyDown(toneId)
        \/ StartSucceeds(toneId)
        \/ StartFails(toneId)
        \/ KeyUp(toneId)
        \/ StopTimerFires(toneId)
        \/ MinHoldElapses(toneId)
    \/ StopAllHeldTones

\* the awaits of startHeldTone settle and the timeouts fire
SpecHeld ==
    /\ InitHeld
    /\ [][NextHeld]_vars
    /\ \A toneId \in ToneIds :
        /\ WF_vars(StartSucceeds(toneId) \/ StartFails(toneId))
        /\ WF_vars(StopTimerFires(toneId))

\* C32: a held tone whose release has been requested is stopped and taken
\* off the table in the end, also when the release came while the start was
\* pending and when the start fell back to the oscillator.
C32_ReleasedTonesStop ==
    \A toneId \in ToneIds : released[toneId] ~> ~heldTones[toneId].present

-----------------------------------------------------------------------------
(* Changes of instrument that overlap: onSettingsChange runs again while the
   loadAudioManifest of an earlier run waits for its response *)

\* the variables that the changes of instrument leave alone
notOverlapVars ==
    <<genVars, mapVars, sampleVars, quizVars, judgeVars, tuneVars, navVars, heldVars,
      afterOverlapVars, sourceCount, isPlaying, playback, voiceEvent>>

\* the number of loadAudioManifest calls of onSettingsChange that wait at
\* one time
MaxManifestLoads == 3

\* the user selects nextInstrument and onSettingsChange() runs up to its
\* await of loadAudioManifest; with the instrument unchanged it runs to its
\* end
OnSettingsChangeAgain(nextInstrument) ==
    /\ Len(manifestLoads) < MaxManifestLoads
    /\ instrumentSelect' = nextInstrument
    /\ settingsInstrument' = nextInstrument
    /\ manifestLoads' =
           IF nextInstrument # settingsInstrument
           THEN Append(manifestLoads, ManifestLoadOf(settingsInstrument, nextInstrument))
           ELSE manifestLoads
    /\ UNCHANGED <<activeVoices, sampleBufferCache, sampleFetchPromises, fetches, ensured,
                   sampleLoadPromise, audioManifestInstrument, settingsChange,
                   sessionStart, notOverlapVars>>

\* the response of the load-th waiting loadAudioManifest arrives and is a
\* manifest: the manifest is set and onSettingsChange resets the playback
\* state
ManifestResponseArrives(load) ==
    /\ load \in 1..Len(manifestLoads)
    /\ audioManifestInstrument' = manifestLoads[load].instrument
    /\ activeVoices' = resetAudioPlaybackState.activeVoices
    /\ sampleBufferCache' = resetAudioPlaybackState.sampleBufferCache
    /\ sampleFetchPromises' = resetAudioPlaybackState.sampleFetchPromises
    /\ manifestLoads' = RemoveAt(manifestLoads, load)
    /\ UNCHANGED <<fetches, ensured, sampleLoadPromise, settingsInstrument,
                   instrumentSelect, settingsChange, sessionStart, notOverlapVars>>

\* the load-th waiting loadAudioManifest throws: onSettingsChange restores
\* the instrument it found
ManifestResponseFails(load) ==
    /\ load \in 1..Len(manifestLoads)
    /\ settingsInstrument' = manifestLoads[load].previous
    /\ instrumentSelect' = manifestLoads[load].previous
    /\ manifestLoads' = RemoveAt(manifestLoads, load)
    /\ UNCHANGED <<activeVoices, sampleBufferCache, sampleFetchPromises, fetches, ensured,
                   sampleLoadPromise, audioManifestInstrument, settingsChange,
                   sessionStart, notOverlapVars>>

NextOverlap ==
    \/ \E nextInstrument \in Instruments : OnSettingsChangeAgain(nextInstrument)
    \/ \E load \in 1..MaxManifestLoads :
        \/ ManifestResponseArrives(load)
        \/ ManifestResponseFails(load)
    \/ StartSessionManifest
    \/ SessionManifestLoaded
    \/ SessionManifestFails

SpecOverlap == InitLoad /\ [][NextOverlap]_vars

\* C33: with no manifest load in flight the loaded manifest is the one of
\* the selected instrument, also after changes of instrument that overlapped
\* and whose responses came in any order, and after a load that failed.
C33_ManifestIsOfSelection ==
    (manifestLoads = <<>> /\ ~sessionStart.pending)
    => audioManifestInstrument = settingsInstrument

-----------------------------------------------------------------------------
(* The unlock of audio: unlockAudioPipeline, recreateAudioContext,
   warmAudioPipelineOnce and ensureAudioContextRunning of the client that
   has instruments *)

\* the variables that the unlock of audio leaves alone
notUnlockVars ==
    <<genVars, mapVars, sampleVars, voiceVars, quizVars, judgeVars, tuneVars, loadVars,
      navVars, heldVars, manifestLoads, afterUnlockVars>>

AUDIO_UNLOCK_RECREATE_FAILURE_THRESHOLD == 2

\* the largest state.audioUnlockFailures that the resumes may reach
MaxUnlockFailures == 4

\* the state in which the browser hands out a new AudioContext
FreshContextStates == {"suspended", "running"}

\* the state that unlockAudioPipeline reads and writes; returns is what the
\* call returns, "true" or "promise" (state.audioUnlockPromise)
UnlockState ==
    [ctx |-> unlockCtx, unlocked |-> audioUnlocked, promise |-> audioUnlockPromise,
     failures |-> audioUnlockFailures, pending |-> audioUnlockPendingGesture,
     attempts |-> unlockAttempts, returns |-> "none"]

SetUnlockState(u) ==
    /\ unlockCtx' = u.ctx
    /\ audioUnlocked' = u.unlocked
    /\ audioUnlockPromise' = u.promise
    /\ audioUnlockFailures' = u.failures
    /\ audioUnlockPendingGesture' = u.pending
    /\ unlockAttempts' = u.attempts
    /\ unlockResult' = IF u.returns = "true" THEN "true" ELSE "none"

\* getOrCreateAudioContext(): the state of state.audioCtx it leaves
getOrCreateAudioContext(ctx, fresh) == IF ctx = "none" THEN fresh ELSE ctx

\* the variant of the test of unlockAudioPipeline that recreates the context
\* on the first failure
shouldRecreateAtOnce(failures) == failures >= AUDIO_UNLOCK_RECREATE_FAILURE_THRESHOLD - 1

\* the test of unlockAudioPipeline after a failed primary resume: the
\* context is recreated unless failures < the threshold
shouldRecreate(failures) == ~(failures < AUDIO_UNLOCK_RECREATE_FAILURE_THRESHOLD)

\* unlockAudioPipeline() up to its return: with the context running it
\* returns true; otherwise it starts an attempt unless one is in flight, and
\* returns the promise of the attempt in flight
unlockAudioPipeline(u, fresh) ==
    LET context == getOrCreateAudioContext(u.ctx, fresh)
    IN  IF context = "running"
        THEN [u EXCEPT !.ctx = context, !.unlocked = TRUE, !.pending = FALSE,
                       !.failures = 0, !.returns = "true"]
        ELSE IF ~u.promise
        THEN [u EXCEPT !.ctx = context, !.promise = TRUE,
                       !.attempts = Append(@, "primary"), !.returns = "promise"]
        ELSE [u EXCEPT !.ctx = context, !.returns = "promise"]

\* the call of ensureAudioContextRunning that has called unlockAudioPipeline
\* which returned u
EnsuringAfter(stage, u) ==
    [pc |-> stage, waits |-> u.returns # "true", unlocked |-> u.returns = "true",
     outcome |-> "none"]

\* an attempt settles and returns returned: .finally clears state.audioUnlockPromise
\* and the call of ensureAudioContextRunning that awaits it gets the value
AttemptSettles(returned) ==
    /\ audioUnlockPromise' = FALSE
    /\ unlockResult' = IF returned THEN "true" ELSE "false"
    /\ ensuring' = IF ensuring.waits
                   THEN [ensuring EXCEPT !.waits = FALSE, !.unlocked = returned]
                   ELSE ensuring

\* a user gesture: warmAudioPipelineOnce()
WarmAudioPipelineOnce(fresh) ==
    /\ IF audioUnlocked
       THEN /\ unlockResult' = "none"
            /\ UNCHANGED <<unlockCtx, audioUnlocked, audioUnlockPromise,
                           audioUnlockFailures, audioUnlockPendingGesture,
                           unlockAttempts>>
       ELSE SetUnlockState(unlockAudioPipeline(UnlockState, fresh))
    /\ UNCHANGED <<ensuring, notUnlockVars>>

\* ensureAudioContextRunning() up to its first await, or to its return when
\* the context is running
EnsureAudioContextRunning(fresh) ==
    /\ ensuring.pc = "idle"
    /\ LET context == getOrCreateAudioContext(unlockCtx, fresh)
       IN  IF context = "running"
           THEN /\ unlockCtx' = context
                /\ unlockResult' = "none"
                /\ ensuring' = [NoEnsuring EXCEPT !.outcome = "context"]
                /\ UNCHANGED <<audioUnlocked, audioUnlockPromise, audioUnlockFailures,
                               audioUnlockPendingGesture, unlockAttempts>>
           ELSE LET u == unlockAudioPipeline([UnlockState EXCEPT !.ctx = context], fresh)
                IN  /\ SetUnlockState(u)
                    /\ ensuring' = EnsuringAfter("first", u)
    /\ UNCHANGED notUnlockVars

\* ensureAudioContextRunning() after an await of unlockAudioPipeline: it
\* calls it once more, or returns the context, or throws the error of an
\* unlock that waits for a gesture ("pending") or another error ("error")
EnsureContinues(fresh) ==
    /\ ensuring.pc \in {"first", "second"}
    /\ ~ensuring.waits
    /\ IF ensuring.pc = "first" /\ (~ensuring.unlocked \/ unlockCtx # "running")
       THEN LET u == unlockAudioPipeline(UnlockState, fresh)
            IN  /\ SetUnlockState(u)
                /\ ensuring' = EnsuringAfter("second", u)
       ELSE /\ ensuring' =
                   [NoEnsuring EXCEPT !.outcome =
                       IF unlockCtx = "running"
                       THEN "context"
                       ELSE IF ~ensuring.unlocked \/ audioUnlockPendingGesture
                       THEN "pending"
                       ELSE "error"]
            /\ unlockResult' = "none"
            /\ UNCHANGED <<unlockCtx, audioUnlocked, audioUnlockPromise,
                           audioUnlockFailures, audioUnlockPendingGesture,
                           unlockAttempts>>
    /\ UNCHANGED notUnlockVars

\* the resume of the attempt's context succeeds, the primary one or the one
\* of the recreated context
ResumeSucceeds(attempt) ==
    /\ attempt \in 1..Len(unlockAttempts)
    /\ unlockAttempts[attempt] \in {"primary", "recreated"}
    /\ unlockCtx # "none"
    /\ unlockCtx' = "running"
    /\ audioUnlocked' = TRUE
    /\ audioUnlockPendingGesture' = FALSE
    /\ audioUnlockFailures' = 0
    /\ unlockAttempts' = RemoveAt(unlockAttempts, attempt)
    /\ AttemptSettles(TRUE)
    /\ UNCHANGED notUnlockVars

\* the primary resume fails or times out: the attempt returns false, or
\* recreateAudioContext() runs up to its await of the close of the context
PrimaryResumeFails(attempt) ==
    /\ attempt \in 1..Len(unlockAttempts)
    /\ unlockAttempts[attempt] = "primary"
    /\ unlockCtx # "running"
    /\ audioUnlockFailures < MaxUnlockFailures
    /\ audioUnlockFailures' = audioUnlockFailures + 1
    /\ audioUnlockPendingGesture' = TRUE
    /\ IF shouldRecreate(audioUnlockFailures')
       THEN /\ unlockCtx' = "none"
            /\ audioUnlocked' = FALSE
            /\ unlockAttempts' = [unlockAttempts EXCEPT ![attempt] = "closing"]
            /\ unlockResult' = "none"
            /\ UNCHANGED <<audioUnlockPromise, ensuring>>
       ELSE /\ unlockAttempts' = RemoveAt(unlockAttempts, attempt)
            /\ AttemptSettles(FALSE)
            /\ UNCHANGED <<unlockCtx, audioUnlocked>>
    /\ UNCHANGED notUnlockVars

\* the close of the former context settles: recreateAudioContext() takes a
\* context from getOrCreateAudioContext() and the attempt resumes it
CloseSettles(attempt, fresh) ==
    /\ attempt \in 1..Len(unlockAttempts)
    /\ unlockAttempts[attempt] = "closing"
    /\ unlockCtx' = getOrCreateAudioContext(unlockCtx, fresh)
    /\ unlockAttempts' = [unlockAttempts EXCEPT ![attempt] = "recreated"]
    /\ unlockResult' = "none"
    /\ UNCHANGED <<audioUnlocked, audioUnlockPromise, audioUnlockFailures,
                   audioUnlockPendingGesture, ensuring, notUnlockVars>>

\* the resume of the recreated context fails: the attempt returns false
RecreatedResumeFails(attempt) ==
    /\ attempt \in 1..Len(unlockAttempts)
    /\ unlockAttempts[attempt] = "recreated"
    /\ unlockCtx # "running"
    /\ audioUnlockFailures < MaxUnlockFailures
    /\ audioUnlockFailures' = audioUnlockFailures + 1
    /\ audioUnlockPendingGesture' = TRUE
    /\ unlockAttempts' = RemoveAt(unlockAttempts, attempt)
    /\ AttemptSettles(FALSE)
    /\ UNCHANGED <<unlockCtx, audioUnlocked, notUnlockVars>>

\* the browser suspends the running context
ContextSuspends ==
    /\ unlockCtx = "running"
    /\ unlockCtx' = "suspended"
    /\ unlockResult' = "none"
    /\ UNCHANGED <<audioUnlocked, audioUnlockPromise, audioUnlockFailures,
                   audioUnlockPendingGesture, unlockAttempts, ensuring, notUnlockVars>>

\* the attempts that may be in flight at one time for the steps to be tried
MaxAttempts == 2

NextUnlock ==
    \/ \E fresh \in FreshContextStates :
        \/ WarmAudioPipelineOnce(fresh)
        \/ EnsureAudioContextRunning(fresh)
        \/ EnsureContinues(fresh)
        \/ \E attempt \in 1..MaxAttempts : CloseSettles(attempt, fresh)
    \/ \E attempt \in 1..MaxAttempts :
        \/ ResumeSucceeds(attempt)
        \/ PrimaryResumeFails(attempt)
        \/ RecreatedResumeFails(attempt)
    \/ ContextSuspends

SpecUnlock == InitLoad /\ [][NextUnlock]_vars

\* C34: a first failed resume recreates no context and throws no error: the
\* attempt returns false with the unlock pending a gesture. The context is
\* recreated only with 2 or more failures in a row, a successful unlock
\* leaves 0 failures and nothing pending, and at most one attempt is in
\* flight, which the callers share.
C34_UnlockRetriesBeforeRecreating ==
    /\ [](/\ Len(unlockAttempts) <= 1
          /\ audioUnlockPromise <=> unlockAttempts # <<>>
          /\ unlockResult = "true"
             => audioUnlocked /\ audioUnlockFailures = 0 /\ ~audioUnlockPendingGesture
          /\ unlockResult = "false"
             => audioUnlockFailures >= 1 /\ audioUnlockPendingGesture)
    /\ [][ /\ (audioUnlockFailures = 0 /\ audioUnlockFailures' = 1)
              => /\ unlockCtx' = unlockCtx
                 /\ unlockResult' = "false"
                 /\ audioUnlockPendingGesture'
                 /\ ~audioUnlockPromise'
                 /\ ensuring'.outcome = ensuring.outcome
           /\ (unlockCtx # "none" /\ unlockCtx' = "none")
              => audioUnlockFailures' >= AUDIO_UNLOCK_RECREATE_FAILURE_THRESHOLD
           /\ (ensuring.pc # "idle" /\ ensuring'.outcome = "error")
              => ~audioUnlockPendingGesture /\ ensuring.unlocked
         ]_vars

\* the call of ensureAudioContextRunning has called unlockAudioPipeline a
\* second time after a failed resume, the second resume has failed too, and
\* the call awaits the attempt that resumes the recreated context
C34_Witness ==
    /\ unlockAttempts = <<"recreated">>
    /\ audioUnlockFailures = 2
    /\ audioUnlockPendingGesture
    /\ ensuring.pc = "second"
    /\ ensuring.waits

-----------------------------------------------------------------------------
(* pickCompareNotes and pickSortNotes called on their own *)

\* the variables that the note pickers leave alone
notPickVars ==
    <<options, pc, module, effectiveLevel, notesPool, doFrequency, questions, session,
      error, catalog, calls, mapVars, sampleVars, voiceVars, quizVars, judgeVars, tuneVars,
      loadVars, navVars, heldVars, manifestLoads, unlockVars, afterPickVars>>

\* the positions in CHROMA_NOTES of the notes that the pools are made of:
\* semitones 0, 1, 2, 4, 7 and 11
PickPositions == {1, 2, 3, 5, 8, 12}

\* pools of at most MaxPickLen notes are picked from
MaxPickLen == 4

\* the pools: the notes at some of the positions, in the order of CHROMA_NOTES
PickPoolInputs ==
    { [k \in 1..Cardinality(positions) |-> CHROMA_NOTES[SortAscending(positions)[k]]] :
        positions \in { S \in SUBSET PickPositions : Cardinality(S) <= MaxPickLen } }

\* the spacings asked for: none, a semitone, a whole tone
PickStepInputs == {null, 1, 2}

InitPick ==
    /\ picking \in
          { PickingOf("compare", pool, 2, intervalStep, seed) :
              pool \in PickPoolInputs, intervalStep \in PickStepInputs, seed \in 0..MaxSeed }
          \cup
          { PickingOf("sort", pool, noteCount, intervalStep, seed) :
              pool \in PickPoolInputs, noteCount \in {3, 4},
              intervalStep \in PickStepInputs, seed \in 0..MaxSeed }
    /\ rng = picking.seed
    /\ GeneratorIdle
    /\ MapperIdle
    /\ sampling = NoSampling
    /\ VoicesIdle
    /\ QuizIdle
    /\ judged = NoJudging
    /\ tuning = NoTuning
    /\ LoaderIdle
    /\ NavIdle
    /\ HeldIdle
    /\ manifestLoads = <<>>
    /\ UnlockIdle
    /\ AfterPickIdle

\* what a call of a picker leaves in picking
Picked(picked) ==
    /\ picking' = [picking EXCEPT !.called = TRUE, !.thrown = picked.thrown,
                                  !.returned = picked.values]
    /\ rng' = picked.rng
    /\ UNCHANGED notPickVars

\* the call pickCompareNotes(notesPool, intervalStep)
PickCompareNotes ==
    /\ ~picking.called
    /\ picking.picker = "compare"
    /\ Picked(pickCompareNotes(picking.pool, picking.intervalStep, rng))

\* the call pickSortNotes(notesPool, noteCount, intervalStep)
PickSortNotes ==
    /\ ~picking.called
    /\ picking.picker = "sort"
    /\ Picked(pickSortNotes(picking.pool, picking.noteCount, picking.intervalStep, rng))

NextPick ==
    \/ PickCompareNotes
    \/ PickSortNotes

SpecPick == InitPick /\ [][NextPick]_vars

\* the semitones of the notes of a pool
SemitonesOf(pool) == { pool[i].semitone : i \in 1..Len(pool) }

\* the pool has noteCount notes whose semitones are intervalStep apart, one
\* after the other
HasProgression(pool, noteCount, intervalStep) ==
    \E start \in SemitonesOf(pool) :
        \A index \in 0..(noteCount - 1) : start + intervalStep * index \in SemitonesOf(pool)

\* C35: a picker called with a spacing on a pool of at least N notes that
\* has no pair (no progression of N notes) at that spacing does not throw:
\* it returns N notes of the pool, no two the same, the ones that
\* sampleWithoutReplacement(pool, N) returns.
C35_PickersFallBack ==
    (/\ picking.called
     /\ picking.intervalStep # null
     /\ Len(picking.pool) >= picking.noteCount
     /\ ~HasProgression(picking.pool, picking.noteCount, picking.intervalStep))
    => /\ ~picking.thrown
       /\ Len(picking.returned) = picking.noteCount
       /\ \A i \in 1..Len(picking.returned) :
            \E j \in 1..Len(picking.pool) : picking.returned[i] = picking.pool[j]
       /\ \A i, j \in 1..Len(picking.returned) :
            picking.returned[i] = picking.returned[j] => i = j
       /\ picking.returned
            = sampleWithoutReplacement(picking.pool, picking.noteCount, picking.seed).values

\* pickSortNotes was asked for four notes a whole tone apart, of the four
\* notes 1, 2, 3 and 5, and has returned them in another order
C35_Witness ==
    /\ picking.called
    /\ picking.picker = "sort"
    /\ picking.noteCount = 4
    /\ picking.intervalStep = 2
    /\ SemitonesOf(picking.pool) = {0, 2, 4, 7}
    /\ Len(picking.returned) = 4
    /\ picking.returned # picking.pool

-----------------------------------------------------------------------------
(* The shape of the generated questions *)

\* the number of notes of a question of a type
NoteCountOf(questionType) ==
    CASE questionType \in {"compare_two", "interval_scale"} -> 2
      [] questionType = "sort_three" -> 3
      [] questionType = "sort_four" -> 4
      [] questionType = "single_note" -> 1
      [] OTHER -> 0

\* C36: every generated question has the type of its module and 2
\* (compare_two, interval_scale), 3 (sort_three), 4 (sort_four) or 1
\* (single_note) notes; its notes are notes of the pool, no two of them the
\* same and no two of the same semitone.
C36_QuestionShape ==
    pc \in {"loop", "done"} =>
        \A i \in 1..Len(questions) :
            LET notes == questions[i].notes
            IN  /\ questions[i].type = module.questionType
                /\ NoteCountOf(questions[i].type) >= 1
                /\ Len(notes) = NoteCountOf(questions[i].type)
                /\ \A a \in 1..Len(notes) :
                     \E k \in 1..Len(notesPool) :
                        /\ notesPool[k].token = notes[a].token
                        /\ notesPool[k].semitone = notes[a].semitone
                /\ \A a, b \in 1..Len(notes) :
                     a # b => /\ notes[a].token # notes[b].token
                              /\ notes[a].semitone # notes[b].semitone

\* a session of sort_four questions is done: its first question has four
\* notes and its last question is of the module's type
C36_Witness ==
    /\ pc = "done"
    /\ module.questionType = "sort_four"
    /\ Len(session.questions) = QUESTION_COUNT
    /\ Len(session.questions[1].notes) = 4
    /\ session.questions[QUESTION_COUNT].type = "sort_four"

-----------------------------------------------------------------------------
(* The full-screen keyboard of the client that has instruments: the octave
   buttons, the hold of both that leaves the mode, and the taps *)

\* the variables that the full-screen keyboard leaves alone
notOctaveVars ==
    <<genVars, mapVars, sampleVars, voiceVars, quizVars, judgeVars, tuneVars, loadVars,
      navVars, heldVars, manifestLoads, unlockVars, picking>>

\* the buttons of the full-screen keyboard by kind: a degree, Oct+ and Oct-
FullKeyboardButtons == {"degree", "octUp", "octDown"}

\* updateTouchOctaveShift(): the state.touchOctaveShift it sets
updateTouchOctaveShift(upActive, downActive) ==
    IF upActive /\ downActive
    THEN 0
    ELSE IF upActive
    THEN 1
    ELSE IF downActive
    THEN 0 - 1
    ELSE 0

\* maybeStartDualOctaveExitHold(): whether state.octaveExitHoldTimer is set
\* after it
maybeStartDualOctaveExitHold(upActive, downActive, timer) ==
    IF ~upActive \/ ~downActive
    THEN FALSE
    ELSE TRUE

\* closeFullKeyboardMode(): the buttons of the overlay go away under the
\* fingers
closeFullKeyboardMode ==
    /\ octaveExitHoldTimer' = FALSE
    /\ touchOctaveUpActive' = FALSE
    /\ touchOctaveDownActive' = FALSE
    /\ touchOctaveShift' = 0
    /\ fullKeyboardPointerTargets' = [pointerId \in Pointers |-> "none"]
    /\ keyboardMode' = "compact"
    /\ pointerAt' = [pointerId \in Pointers |-> "none"]

\* the user opens the full-screen keyboard: openFullKeyboardMode()
OpenFullKeyboardMode ==
    /\ keyboardMode' = "full"
    /\ tap' = NoTap
    /\ UNCHANGED <<touchOctaveUpActive, touchOctaveDownActive, touchOctaveShift,
                   octaveExitHoldTimer, fullKeyboardPointerTargets, pointerAt,
                   notOctaveVars>>

\* the user closes the full-screen keyboard with its button, with Escape or
\* by leaving the page
CloseFullKeyboardMode ==
    /\ closeFullKeyboardMode
    /\ tap' = NoTap
    /\ UNCHANGED notOctaveVars

\* a finger that touched no button goes down on a button of the overlay:
\* handleFullKeyboardPointerDown(event)
HandleFullKeyboardPointerDown(pointerId, button) ==
    /\ keyboardMode = "full"
    /\ pointerAt[pointerId] = "none"
    /\ pointerAt' = [pointerAt EXCEPT ![pointerId] = button]
    /\ IF fullKeyboardPointerTargets[pointerId] # "none"
       THEN /\ tap' = NoTap
            /\ UNCHANGED <<touchOctaveUpActive, touchOctaveDownActive, touchOctaveShift,
                           octaveExitHoldTimer, fullKeyboardPointerTargets>>
       ELSE /\ fullKeyboardPointerTargets' =
                   [fullKeyboardPointerTargets EXCEPT ![pointerId] = button]
            /\ IF button = "degree"
               THEN /\ tap' = [played |-> TRUE, shift |-> touchOctaveShift,
                               held |-> updateTouchOctaveShift(
                                            \E p \in Pointers : pointerAt[p] = "octUp",
                                            \E p \in Pointers : pointerAt[p] = "octDown")]
                    /\ UNCHANGED <<touchOctaveUpActive, touchOctaveDownActive,
                                   touchOctaveShift, octaveExitHoldTimer>>
               ELSE /\ tap' = NoTap
                    /\ touchOctaveUpActive' = (button = "octUp" \/ touchOctaveUpActive)
                    /\ touchOctaveDownActive' = (button = "octDown" \/ touchOctaveDownActive)
                    /\ touchOctaveShift' =
                           updateTouchOctaveShift(touchOctaveUpActive', touchOctaveDownActive')
                    /\ octaveExitHoldTimer' =
                           maybeStartDualOctaveExitHold(touchOctaveUpActive',
                                                        touchOctaveDownActive',
                                                        octaveExitHoldTimer)
    /\ UNCHANGED <<keyboardMode, notOctaveVars>>

\* the finger goes up or the pointer is cancelled:
\* handleFullKeyboardPointerUp(event)
HandleFullKeyboardPointerUp(pointerId) ==
    /\ pointerAt[pointerId] # "none"
    /\ pointerAt' = [pointerAt EXCEPT ![pointerId] = "none"]
    /\ tap' = NoTap
    /\ fullKeyboardPointerTargets' =
           [fullKeyboardPointerTargets EXCEPT ![pointerId] = "none"]
    /\ IF fullKeyboardPointerTargets[pointerId] \in {"octUp", "octDown"}
       THEN /\ touchOctaveUpActive' =
                   (fullKeyboardPointerTargets[pointerId] # "octUp" /\ touchOctaveUpActive)
            /\ touchOctaveDownActive' =
                   (fullKeyboardPointerTargets[pointerId] # "octDown"
                    /\ touchOctaveDownActive)
            /\ touchOctaveShift' =
                   updateTouchOctaveShift(touchOctaveUpActive', touchOctaveDownActive')
            /\ octaveExitHoldTimer' =
                   maybeStartDualOctaveExitHold(touchOctaveUpActive', touchOctaveDownActive',
                                                octaveExitHoldTimer)
       ELSE UNCHANGED <<touchOctaveUpActive, touchOctaveDownActive, touchOctaveShift,
                        octaveExitHoldTimer>>
    /\ UNCHANGED <<keyboardMode, notOctaveVars>>

\* FULL_KEYBOARD_EXIT_HOLD_MS after it was set the timeout of
\* maybeStartDualOctaveExitHold fires
ExitHoldTimerFires ==
    /\ octaveExitHoldTimer
    /\ tap' = NoTap
    /\ IF touchOctaveUpActive /\ touchOctaveDownActive
       THEN closeFullKeyboardMode
       ELSE /\ octaveExitHoldTimer' = FALSE
            /\ UNCHANGED <<keyboardMode, touchOctaveUpActive, touchOctaveDownActive,
                           touchOctaveShift, fullKeyboardPointerTargets, pointerAt>>
    /\ UNCHANGED notOctaveVars

NextOctave ==
    \/ OpenFullKeyboardMode
    \/ CloseFullKeyboardMode
    \/ \E pointerId \in Pointers :
        \/ \E button \in FullKeyboardButtons : HandleFullKeyboardPointerDown(pointerId, button)
        \/ HandleFullKeyboardPointerUp(pointerId)
    \/ ExitHoldTimerFires

SpecOctave == InitLoad /\ [][NextOctave]_vars

\* a finger is down on Oct+, on Oct-
OctUpHeld == \E pointerId \in Pointers : pointerAt[pointerId] = "octUp"

OctDownHeld == \E pointerId \in Pointers : pointerAt[pointerId] = "octDown"

\* C37: in the full-screen mode the timer of the exit runs exactly while
\* Oct+ and Oct- are both held, so that the release of either cancels the
\* exit, and when it fires the keyboard is compact with the octave state
\* cleared; a tap is played with the shift +1 while only Oct+ is held, -1
\* while only Oct- is held, 0 with both or neither.
C37_OctaveButtons ==
    /\ [](keyboardMode = "full" => (octaveExitHoldTimer <=> (OctUpHeld /\ OctDownHeld)))
    /\ [](keyboardMode = "compact"
          => /\ ~octaveExitHoldTimer
             /\ ~touchOctaveUpActive
             /\ ~touchOctaveDownActive
             /\ touchOctaveShift = 0)
    /\ [](tap.played => tap.shift = tap.held)
    /\ [][ExitHoldTimerFires => keyboardMode' = "compact"]_vars

====
